---- MODULE Spec2Model ----
(***************************************************************************)
(* A model of the editing core of breeze (libbrz): the rope-backed text,   *)
(* the multi-selection set and its fixups (buffer.rs, selection.rs,        *)
(* idx.rs, position.rs), the per-buffer undo history (state.rs) and the    *)
(* Normal/Insert/Goto key dispatch (mode/*.rs).                            *)
(*                                                                         *)
(* A text is a sequence of characters, each a one-character string.        *)
(* Offsets (Idx) are 0-based as in the source; TLA+ sequences are 1-based, *)
(* so text.char(i) is text[i + 1].                                         *)
(***************************************************************************)
EXTENDS Integers, Sequences, FiniteSets, TLC

VARIABLES
    buffer,                 \* BufferState.buffer: the live Buffer
    buffer_history,         \* BufferState.buffer_history: Vec<Buffer>
    buffer_history_undo_i,  \* Option<usize>: <<>> is None, <<i>> is Some(i)
    mode,                   \* State.mode: the current Mode
    yanked,                 \* State.yanked: Vec<Rope>
    panicked,               \* the process died in a panic (terminal)
    last,                   \* the operation that produced this state, its arguments and pre-state
    steps,                  \* number of operations the behaviour may still apply
    buffers,                \* State.buffers: Slab<BufferState>, every open buffer with its path
    cur_buffer_i,           \* State.cur_buffer_i: Option<usize>, the key of the current buffer
    msg                     \* State.msg: Option<String>, the status message

\* SpecCmd keeps every BufferState in buffers; the other specifications work
\* on one BufferState, held in buffer, buffer_history and
\* buffer_history_undo_i, and leave buffers, cur_buffer_i and msg as
\* State::default makes them
vars == <<buffer, buffer_history, buffer_history_undo_i, mode, yanked, panicked, last, steps,
          buffers, cur_buffer_i, msg>>

-----------------------------------------------------------------------------
(* Bounds of the model *)

\* operations applied in one behaviour
MaxSteps == 2
\* largest offset / length handed to the selection fixups
MaxIdx == 4
\* longest text an operation may produce
MaxLen == 6
\* largest repeat count handed to an operation
MaxTimes == 2
\* longest undo history
MaxHist == 4
\* keys typed in one behaviour
MaxKeys == 3
\* the width of usize in the model
UsizeBits == 16

-----------------------------------------------------------------------------
(* Characters *)

NL == "\n"
TAB == "\t"
SP == " "
\* a character whose UTF-8 encoding takes two bytes
Wide == "é"

\* char::len_utf8, as used by str::len
len_utf8(ch) == IF ch = Wide THEN 2 ELSE 1

RECURSIVE str_len(_)
\* str::len: the length of a string in bytes
str_len(s) == IF s = <<>> THEN 0 ELSE len_utf8(Head(s)) + str_len(Tail(s))

\* Option: None, and Some(x)
None == <<>>
Some(x) == <<x>>

\* Slab::new: no entry, and 0 the key the next insert gets
EmptySlab == [entries |-> <<>>, next |-> 0]

\* buffers, cur_buffer_i and msg of State::default (state.rs 473-474, 471)
NoBufferOpen ==
    /\ buffers = EmptySlab
    /\ cur_buffer_i = None
    /\ msg = None

Min(a, b) == IF a < b THEN a ELSE b
Max(a, b) == IF a < b THEN b ELSE a
\* usize::saturating_sub
saturating_sub(a, b) == IF a < b THEN 0 ELSE a - b

-----------------------------------------------------------------------------
(* Idx arithmetic (idx.rs) *)

len_chars(text) == Len(text)

backward_n(idx, n) == saturating_sub(idx, n)
forward_n(idx, n, text) == Min(idx + n, len_chars(text))
backward(idx) == backward_n(idx, 1)
forward(idx, text) == forward_n(idx, 1, text)
trim_to_text(idx, text) == IF idx > len_chars(text) THEN len_chars(text) ELSE idx

-----------------------------------------------------------------------------
(* The text backend (ropey::Rope), as far as the core uses it *)

\* the number of line breaks among the first n characters
count_nl(text, n) == Cardinality({i \in 1..Min(n, Len(text)) : text[i] = NL})

len_lines(text) == count_nl(text, Len(text)) + 1

\* Rope::char_to_line; the caller checks idx <= len_chars (ropey panics otherwise)
char_to_line(text, idx) == count_nl(text, idx)

\* Rope::line_to_char; the caller checks line <= len_lines
line_to_char(text, line) ==
    IF line = 0 THEN 0
    ELSE IF line >= len_lines(text) THEN Len(text)
    ELSE CHOOSE i \in 1..Len(text) : text[i] = NL /\ count_nl(text, i) = line

\* Rope::line(line).len_chars(), the line break included; line < len_lines
line_len_chars(text, line) == line_to_char(text, line + 1) - line_to_char(text, line)

\* Rope::slice(from..to) for from <= to <= len_chars
slice(text, from, to) == SubSeq(text, from + 1, to)

\* Rope::insert(idx, s) for idx <= len_chars
rope_insert(text, idx, s) == SubSeq(text, 1, idx) \o s \o SubSeq(text, idx + 1, Len(text))

\* Rope::remove(from..to) for from <= to <= len_chars
rope_remove(text, from, to) == SubSeq(text, 1, from) \o SubSeq(text, to + 1, Len(text))

\* " ".repeat(n)
spaces(n) == [i \in 1..n |-> SP]

-----------------------------------------------------------------------------
(* Character classes (util/char.rs, idx.rs) *)

is_whitespace(ch) == ch \in {SP, TAB, NL}
is_newline(ch) == ch = NL
is_not_newline(ch) == ch # NL
is_non_newline_whitespace(ch) == is_whitespace(ch) /\ ch # NL
\* the alphanumeric characters of the texts
Letters == {"a", "b", "c", "f", "o", "r", "z"}
is_word_forming(ch) == ch \in Letters \cup {Wide, "_"}

char_category(ch) ==
    IF is_word_forming(ch) THEN "Alphanumeric"
    ELSE IF is_whitespace(ch) THEN "Whitespace"
    ELSE "Punctuation"

is_indent_opening_char(ch) == ch \in {"{", "(", "[", "<", "\"", "'"}
is_indent_closing_char(ch) == ch \in {"}", ")", "]", ">", "\"", "'"}

matching_char(ch) ==
    CASE ch = "{" -> "}"
      [] ch = "}" -> "{"
      [] ch = "[" -> "]"
      [] ch = "]" -> "["
      [] ch = "<" -> ">"
      [] ch = ">" -> "<"
      [] ch = "(" -> ")"
      [] ch = ")" -> "("
      [] OTHER -> ch

-----------------------------------------------------------------------------
(* Position (position.rs) *)

Pos(line, column) == [line |-> line, column |-> column]

\* Position::from_idx; panics (char_to_line) when idx > len_chars
from_idx_panics(idx, text) == idx > len_chars(text)
from_idx(idx, text) ==
    LET line == char_to_line(text, idx)
    IN  Pos(line, idx - line_to_char(text, line))
to_position(idx, text) == from_idx(idx, text)

\* panics (Rope::line) when the line is not a line of the text
trim_column_to_buf_panics(pos, text) == pos.line >= len_lines(text)
trim_column_to_buf(pos, text) ==
    LET line_len == line_len_chars(text, pos.line)
    IN  Pos(pos.line,
            IF line_len = 0 THEN 0
            ELSE IF pos.line + 1 = len_lines(text) THEN Min(pos.column, line_len)
            ELSE Min(pos.column, line_len - 1))

trim_line_to_buf(pos, text) ==
    Pos(Min(pos.line, saturating_sub(len_lines(text), 1)), pos.column)

to_idx(pos, text) ==
    LET trimed == trim_column_to_buf(pos, text)
    IN  line_to_char(text, trimed.line) + trimed.column

set_line(pos, line, text) == trim_line_to_buf(Pos(line, pos.column), text)
set_column(pos, column, text) == trim_column_to_buf(Pos(pos.line, column), text)

-----------------------------------------------------------------------------
(* Idx scans (idx.rs) *)

\* Idx::prev_char reads text.char(idx - 1): a panic when that is past the end
prev_char_panics(idx, text) == idx > len_chars(text)

\* the characters of a text, the arguments a scan hands to its predicate
text_chars(text) == {text[i] : i \in 1..Len(text)}

\* Idx::forward_while, f the predicate as a function on the characters of the
\* text: next_char is None at or past the end
forward_while(idx, f, text) ==
    LET stops == {j \in idx..Max(idx, len_chars(text)) :
                    j >= len_chars(text) \/ ~f[text[j + 1]]}
    IN  CHOOSE j \in stops : \A k \in stops : j <= k

\* Idx::backward_while, for idx <= len_chars
backward_while(idx, f, text) ==
    LET stops == {j \in 0..idx : j = 0 \/ ~f[text[j]]}
    IN  CHOOSE j \in stops : \A k \in stops : k <= j

forward_to_line_end(idx, text) ==
    forward_while(idx, [ch \in text_chars(text) |-> is_not_newline(ch)], text)
forward_past_line_end(idx, text) == forward(forward_to_line_end(idx, text), text)
backward_to_line_start(idx, text) ==
    backward_while(idx, [ch \in text_chars(text) |-> is_not_newline(ch)], text)
before_first_non_whitespace(idx, text) ==
    forward_while(backward_to_line_start(idx, text),
                  [ch \in text_chars(text) |-> is_non_newline_whitespace(ch)], text)

\* Idx::forward_word that stops at the end of the run and leaves the blanks
\* after it
forward_word_to_run_end(idx, text) ==
    LET start == forward_while(idx, [ch \in text_chars(text) |-> is_newline(ch)], text)
        same == [ch \in text_chars(text) |-> char_category(ch) = char_category(text[start + 1])]
    IN  <<start, IF start >= len_chars(text) THEN start ELSE forward_while(start, same, text)>>

\* Idx::forward_word: <<start, end>>
forward_word(idx, text) ==
    LET start == forward_while(idx, [ch \in text_chars(text) |-> is_newline(ch)], text)
        same == [ch \in text_chars(text) |-> char_category(ch) = char_category(text[start + 1])]
        run == IF start >= len_chars(text) THEN start ELSE forward_while(start, same, text)
    IN  <<start, forward_while(run, [ch \in text_chars(text) |-> is_non_newline_whitespace(ch)],
                               text)>>

\* Idx::backward_word: <<start, end>>, for idx <= len_chars
backward_word(idx, text) ==
    LET start == backward_while(
                     backward_while(idx, [ch \in text_chars(text) |-> is_newline(ch)], text),
                     [ch \in text_chars(text) |-> is_non_newline_whitespace(ch)], text)
        same == [ch \in text_chars(text) |-> char_category(ch) = char_category(text[start])]
    IN  <<start, IF start = 0 THEN start ELSE backward_while(start, same, text)>>

RECURSIVE to_after_indent_opening_char(_, _, _)
\* Idx::to_after_indent_opening_char with its nesting stack: <<>> is None
to_after_indent_opening_char(idx, nesting, text) ==
    IF idx = 0 THEN None
    ELSE LET ch == text[idx]
         IN  IF is_indent_opening_char(ch) /\ nesting = <<>> THEN Some(idx)
             ELSE IF /\ is_indent_opening_char(ch)
                     /\ ch = matching_char(nesting[Len(nesting)])
                  THEN to_after_indent_opening_char(
                           backward(idx), SubSeq(nesting, 1, Len(nesting) - 1), text)
             ELSE to_after_indent_opening_char(
                      backward(idx),
                      IF is_indent_closing_char(ch) THEN Append(nesting, ch) ELSE nesting,
                      text)

\* Idx::desired_indent_when_opening_line: <<indent, increase_indent>>
desired_indent_when_opening_line(idx, text) ==
    LET indent_opening == to_after_indent_opening_char(idx, <<>>, text)
    IN  IF indent_opening # None
        THEN <<slice(text, backward_to_line_start(idx, text),
                     before_first_non_whitespace(idx, text)),
               to_position(indent_opening[1], text).line = to_position(idx, text).line>>
        ELSE <<<<>>, FALSE>>

\* Idx::down_unaligned / up_unaligned; column is None or Some(column)
down_unaligned(idx, n, column, text) ==
    LET coord == to_position(idx, text)
    IN  to_idx(trim_line_to_buf(
                   Pos(coord.line + n, IF column # None THEN column[1] ELSE coord.column),
                   text), text)

up_unaligned(idx, n, column, text) ==
    LET coord == to_position(idx, text)
    IN  to_idx(trim_line_to_buf(
                   Pos(saturating_sub(coord.line, n),
                       IF column # None THEN column[1] ELSE coord.column),
                   text), text)

-----------------------------------------------------------------------------
(* Tab stops (buffer.rs) *)

\* Buffer::default().tabstop
tabstop == 4

distance_to_next_tabstop(visual_column, ts) ==
    ((visual_column + ts) \div ts) * ts - visual_column

distance_to_prev_tabstop(visual_column, ts) ==
    visual_column - (saturating_sub(visual_column, 1) \div ts) * ts

RECURSIVE visual_fold(_, _)
\* the fold of Buffer::to_visual over the characters before the column
visual_fold(chars, v_col) ==
    IF chars = <<>> THEN v_col
    ELSE visual_fold(Tail(chars),
                     IF Head(chars) = TAB
                     THEN v_col + distance_to_next_tabstop(v_col, tabstop)
                     ELSE v_col + 1)

\* Buffer::to_visual(coord).column, for a coord inside its line
to_visual_column(coord, text) ==
    LET start == line_to_char(text, coord.line)
    IN  visual_fold(slice(text, start, start + coord.column), 0)

\* Buffer::indent_text
indent_text(expand_tabs, times) ==
    IF ~expand_tabs THEN <<TAB>> ELSE spaces(tabstop * times)

-----------------------------------------------------------------------------
(* Selection (selection.rs) *)

Sel(a, c, wf) == [anchor |-> a, cursor |-> c, was_forward |-> wf]

is_forward(sel) ==
    IF sel.anchor < sel.cursor THEN TRUE
    ELSE IF sel.cursor < sel.anchor THEN FALSE
    ELSE sel.was_forward

collapsed(sel) == Sel(sel.cursor, sel.cursor, sel.was_forward)
reversed(sel) == Sel(sel.cursor, sel.anchor, ~sel.was_forward)
sorted(sel) == IF is_forward(sel) THEN sel ELSE reversed(sel)
sorted_pair(sel) ==
    IF is_forward(sel) THEN <<sel.anchor, sel.cursor>> ELSE <<sel.cursor, sel.anchor>>
aligned(sel, text) ==
    Sel(trim_to_text(sel.anchor, text), trim_to_text(sel.cursor, text), sel.was_forward)

-----------------------------------------------------------------------------
(* SelectionSet fixups (buffer.rs) *)

fix_on_insert_sel_swapped(sel, idx, len) ==
    IF is_forward(sel)
    THEN Sel(IF idx <= sel.anchor THEN sel.anchor + len ELSE sel.anchor,
             IF idx < sel.cursor THEN sel.cursor + len ELSE sel.cursor,
             sel.was_forward)
    ELSE Sel(IF idx < sel.anchor THEN sel.anchor + len ELSE sel.anchor,
             IF idx <= sel.cursor THEN sel.cursor + len ELSE sel.cursor,
             sel.was_forward)

\* the body of fix_on_insert's loop, for one selection
fix_on_insert_sel(sel, idx, len) ==
    IF is_forward(sel)
    THEN Sel(IF idx < sel.anchor THEN sel.anchor + len ELSE sel.anchor,
             IF idx <= sel.cursor THEN sel.cursor + len ELSE sel.cursor,
             sel.was_forward)
    ELSE Sel(IF idx <= sel.anchor THEN sel.anchor + len ELSE sel.anchor,
             IF idx < sel.cursor THEN sel.cursor + len ELSE sel.cursor,
             sel.was_forward)

fix_on_insert(selections, idx, len) ==
    [i \in 1..Len(selections) |-> fix_on_insert_sel(selections[i], idx, len)]

fix_on_delete_idx_no_collapse(e, idx, len) ==
    IF idx < backward_n(e, len) THEN saturating_sub(e, len)
    ELSE e

\* fix_on_delete's update of one endpoint
fix_on_delete_idx(e, idx, len) ==
    IF idx < backward_n(e, len) THEN saturating_sub(e, len)
    ELSE IF idx < e THEN saturating_sub(e, e - idx)
    ELSE e

fix_on_delete(selections, idx, len) ==
    [i \in 1..Len(selections) |->
        Sel(fix_on_delete_idx(selections[i].anchor, idx, len),
            fix_on_delete_idx(selections[i].cursor, idx, len),
            selections[i].was_forward)]

-----------------------------------------------------------------------------
(* Buffer (buffer.rs).  An operation yields the new Buffer, or Panic when   *)
(* the source panics on the way (an out-of-range Rope access, an integer    *)
(* underflow).                                                              *)

Panic == [panic |-> TRUE]

\* Vec::sort_by_key on the first component (a stable sort)
sort_by_key(seq) ==
    LET n == Len(seq)
        rank(i) == Cardinality({j \in 1..n : \/ seq[j][1] < seq[i][1]
                                             \/ (seq[j][1] = seq[i][1] /\ j < i)}) + 1
    IN  [r \in 1..n |-> seq[CHOOSE i \in 1..n : rank(i) = r]]

\* Vec::reverse
reverse(seq) == [i \in 1..Len(seq) |-> seq[Len(seq) + 1 - i]]

\* the cursors of the selections, sorted and reversed: highest offset first
insertion_points(selections) ==
    LET keyed == reverse(sort_by_key([i \in 1..Len(selections) |-> <<selections[i].cursor>>]))
    IN  [i \in 1..Len(keyed) |-> keyed[i][1]]

\* SelectionSet::collapse
collapse_all(selections) == [i \in 1..Len(selections) |-> collapsed(selections[i])]
\* SelectionSet::sort
sort_all(selections) == [i \in 1..Len(selections) |-> sorted(selections[i])]
\* SelectionSet::clear_cursor_column
clear_cursor_column(b) == [b EXCEPT !.selection.cursor_column = <<>>]

\* the text and the selections an operation works on, and whether it panicked
Work(text, selections) == [text |-> text, selections |-> selections, panic |-> FALSE]
Done(b, w) ==
    IF w.panic THEN Panic
    ELSE [b EXCEPT !.text = w.text, !.selection.selections = w.selections]

\* the length Buffer::insert hands to fix_on_insert: s.len(), in bytes
insert_len(s) == str_len(s)

RECURSIVE insert_loop(_, _, _)
\* the loop of Buffer::insert over the insertion points
insert_loop(w, points, s) ==
    IF points = <<>> \/ w.panic THEN w
    ELSE IF s = <<>> THEN insert_loop(w, Tail(points), s)
    ELSE IF Head(points) > len_chars(w.text) THEN [w EXCEPT !.panic = TRUE]
    ELSE insert_loop(Work(rope_insert(w.text, Head(points), s),
                          fix_on_insert(w.selections, Head(points), insert_len(s))),
                     Tail(points), s)

\* Buffer::insert
insert(b, s, extend) ==
    LET b1 == clear_cursor_column(b)
        sels == b1.selection.selections
        points == insertion_points(sels)
        start == IF ~extend THEN sort_all(collapse_all(sels)) ELSE sels
    IN  Done(b1, insert_loop(Work(b1.text, start), points, s))

RECURSIVE insert_tab_loop(_, _, _)
\* the loop of Buffer::insert_tab over <<idx, n>>
insert_tab_loop(w, insertions, extend) ==
    IF insertions = <<>> \/ w.panic THEN w
    ELSE LET idx == Head(insertions)[1]
             n == Head(insertions)[2]
             sels == sort_all(IF ~extend THEN collapse_all(w.selections) ELSE w.selections)
         IN  IF idx > len_chars(w.text) THEN [w EXCEPT !.panic = TRUE]
             ELSE insert_tab_loop(Work(rope_insert(w.text, idx, spaces(n)),
                                       fix_on_insert(sels, idx, n)),
                                  Tail(insertions), extend)

\* Buffer::insert_tab
insert_tab(b, extend) ==
    LET b1 == clear_cursor_column(b)
        sels == b1.selection.selections
    IN  IF ~b1.expand_tabs THEN insert(b1, <<TAB>>, extend)
        ELSE IF \E i \in 1..Len(sels) : from_idx_panics(sels[i].cursor, b1.text) THEN Panic
        ELSE LET insertions ==
                     [i \in 1..Len(sels) |->
                         <<sels[i].cursor,
                           distance_to_next_tabstop(
                               to_visual_column(to_position(sels[i].cursor, b1.text), b1.text),
                               tabstop)>>]
             IN  Done(b1, insert_tab_loop(Work(b1.text, sels),
                                          reverse(sort_by_key(insertions)), extend))

RECURSIVE open_loop(_, _, _, _)
\* the loop of Buffer::open_impl over <<insert_idx, selection index, indent, increase_indent>>
open_loop(w, indents, extend, expand_tabs) ==
    IF indents = <<>> \/ w.panic THEN w
    ELSE LET insert_idx == Head(indents)[1]
             sel_i == Head(indents)[2]
             indent == Head(indents)[3]
             extra == IF Head(indents)[4] THEN indent_text(expand_tabs, 1) ELSE <<>>
             inserted == <<NL>> \o extra \o indent
             text == rope_insert(w.text, insert_idx, inserted)
             fixed == fix_on_insert(w.selections, insert_idx, Len(inserted))
             moved == [fixed[sel_i] EXCEPT
                          !.cursor = forward_n(insert_idx, Len(inserted), text)]
         IN  IF insert_idx > len_chars(w.text) THEN [w EXCEPT !.panic = TRUE]
             ELSE open_loop(
                      Work(text, [fixed EXCEPT
                                     ![sel_i] = IF extend THEN moved ELSE collapsed(moved)]),
                      Tail(indents), extend, expand_tabs)

\* Buffer::open_impl
open_impl(b, was_enter, extend) ==
    LET b1 == clear_cursor_column(b)
        sels == b1.selection.selections
    IN  IF \E i \in 1..Len(sels) : prev_char_panics(sels[i].cursor, b1.text) THEN Panic
        ELSE LET indents ==
                     [i \in 1..Len(sels) |->
                         LET d == desired_indent_when_opening_line(sels[i].cursor, b1.text)
                         IN  <<IF was_enter THEN sels[i].cursor
                               ELSE forward_to_line_end(sels[i].cursor, b1.text),
                               i, d[1], d[2]>>]
             IN  Done(b1, open_loop(Work(b1.text,
                                         IF ~extend THEN collapse_all(sels) ELSE sels),
                                    reverse(sort_by_key(indents)), extend, b1.expand_tabs))

insert_enter(b, extend) == open_impl(b, TRUE, extend)
open(b) == open_impl(b, FALSE, FALSE)

\* Selection::normalized: both endpoints clamped into the text
normalized(sel, text) == aligned(sel, text)

\* Selection::self_or_direction_marker
self_or_direction_marker(sel, text) ==
    IF sel.anchor = sel.cursor
    THEN aligned([sel EXCEPT !.cursor = IF sel.was_forward THEN backward(sel.cursor)
                                        ELSE forward(sel.cursor, text)], text)
    ELSE sel

RECURSIVE remove_loop(_, _)
\* the loop of Buffer::remove_ranges over <<start, end>>, highest start first
remove_loop(w, ranges) ==
    IF ranges = <<>> \/ w.panic THEN w
    ELSE LET start == Head(ranges)[1]
             end == Head(ranges)[2]
         IN  IF start > end \/ end > len_chars(w.text) THEN [w EXCEPT !.panic = TRUE]
             ELSE remove_loop(Work(rope_remove(w.text, start, end),
                                   fix_on_delete(w.selections, start, end - start)),
                              Tail(ranges))

\* Buffer::remove_ranges
remove_ranges(w, ranges) == remove_loop(w, reverse(sort_by_key(ranges)))

\* the span Buffer::delete removes for one selection
delete_range(sel, text) == sorted_pair(self_or_direction_marker(normalized(sel, text), text))

\* Buffer::delete: the buffer afterwards
delete(b) ==
    LET b1 == clear_cursor_column(b)
        sels == b1.selection.selections
        ranges == [i \in 1..Len(sels) |-> delete_range(sels[i], b1.text)]
    IN  Done(b1, remove_ranges(Work(b1.text, collapse_all(sels)), ranges))

\* Buffer::delete: the spans it returns
delete_yanked(b) ==
    [i \in 1..Len(b.selection.selections) |->
        LET r == delete_range(b.selection.selections[i], b.text)
        IN  slice(b.text, r[1], r[2])]

\* Buffer::yank
yank(b) ==
    [i \in 1..Len(b.selection.selections) |->
        LET r == sorted_pair(normalized(b.selection.selections[i], b.text))
        IN  slice(b.text, r[1], r[2])]

RECURSIVE paste_loop(_, _, _, _, _)
\* the loops of Buffer::paste (collapse) and Buffer::paste_extend (no collapse)
paste_loop(w, points, i, ynk, collapse) ==
    IF points = <<>> \/ w.panic THEN w
    ELSE LET idx == Head(points)
             sels == IF collapse THEN collapse_all(w.selections) ELSE w.selections
         IN  IF i > Len(ynk) \/ ynk[i] = <<>>
             THEN paste_loop(Work(w.text, sels), Tail(points), i + 1, ynk, collapse)
             ELSE IF idx > len_chars(w.text) THEN [w EXCEPT !.panic = TRUE]
             ELSE paste_loop(Work(rope_insert(w.text, idx, ynk[i]),
                                  fix_on_insert(sels, idx, len_chars(ynk[i]))),
                             Tail(points), i + 1, ynk, collapse)

paste(b, ynk) ==
    Done(b, paste_loop(Work(b.text, b.selection.selections),
                       insertion_points(b.selection.selections), 1, ynk, TRUE))

paste_extend(b, ynk) ==
    Done(b, paste_loop(Work(b.text, b.selection.selections),
                       insertion_points(b.selection.selections), 1, ynk, FALSE))

\* Buffer::backspace_one
backspace_one(b) ==
    LET b1 == clear_cursor_column(b)
        sels == b1.selection.selections
        cursor(i) == normalized(sels[i], b1.text).cursor
    IN  IF \E i \in 1..Len(sels) : cursor(i) = 0 THEN Panic
        ELSE Done(b1, remove_ranges(Work(b1.text, collapse_all(sels)),
                                    [i \in 1..Len(sels) |-> <<cursor(i) - 1, cursor(i)>>]))

RECURSIVE backspace_loop(_, _)
\* the loop of Buffer::backspace over <<idx, n>>
backspace_loop(w, removal) ==
    IF removal = <<>> \/ w.panic THEN w
    ELSE LET idx == Head(removal)[1]
             start == backward_n(idx, Head(removal)[2])
         IN  IF idx > len_chars(w.text) THEN [w EXCEPT !.panic = TRUE]
             ELSE backspace_loop(Work(rope_remove(w.text, start, idx),
                                      fix_on_delete(w.selections, start, idx - start)),
                                 Tail(removal))

\* Buffer::backspace
backspace(b, extend) ==
    LET b1 == clear_cursor_column(b)
        sels == b1.selection.selections
    IN  IF ~b1.expand_tabs THEN backspace_one(b1)
        ELSE IF \E i \in 1..Len(sels) : from_idx_panics(sels[i].cursor, b1.text) THEN Panic
        ELSE LET removal ==
                     [i \in 1..Len(sels) |->
                         LET v_col == to_visual_column(to_position(sels[i].cursor, b1.text),
                                                       b1.text)
                         IN  <<sels[i].cursor,
                               IF v_col = 0 THEN 1
                               ELSE IF sels[i].cursor
                                         = before_first_non_whitespace(sels[i].cursor, b1.text)
                               THEN distance_to_prev_tabstop(v_col, tabstop)
                               ELSE 1>>]
             IN  Done(b1, backspace_loop(
                              Work(b1.text,
                                   IF ~extend THEN sort_all(collapse_all(sels)) ELSE sels),
                              reverse(sort_by_key(removal))))

\* a cursor past the end of the text makes to_position and prev_char panic
some_cursor_out_of_text(b) ==
    \E i \in 1..Len(b.selection.selections) :
        b.selection.selections[i].cursor > len_chars(b.text)

\* Buffer::move_cursor / extend_cursor with Idx::backward_n and Idx::forward_n
move_cursor_backward(b, n) ==
    [clear_cursor_column(b) EXCEPT !.selection.selections =
        [i \in 1..Len(@) |-> Sel(@[i].cursor, backward_n(@[i].cursor, n), @[i].was_forward)]]

move_cursor_forward(b, n) ==
    [clear_cursor_column(b) EXCEPT !.selection.selections =
        [i \in 1..Len(@) |->
            Sel(@[i].cursor, forward_n(@[i].cursor, n, b.text), @[i].was_forward)]]

extend_cursor_backward(b, n) ==
    [clear_cursor_column(b) EXCEPT !.selection.selections =
        [i \in 1..Len(@) |-> [@[i] EXCEPT !.cursor = backward_n(@, n)]]]

extend_cursor_forward(b, n) ==
    [clear_cursor_column(b) EXCEPT !.selection.selections =
        [i \in 1..Len(@) |-> [@[i] EXCEPT !.cursor = forward_n(@, n, b.text)]]]

\* SelectionSet::maybe_save_cursor_column, for cursors inside the text
maybe_save_cursor_column(b) ==
    IF b.selection.cursor_column = <<>>
    THEN [b EXCEPT !.selection.cursor_column =
             [i \in 1..Len(b.selection.selections) |->
                 to_position(b.selection.selections[i].cursor, b.text).column]]
    ELSE b

\* cursor_column.get(i)
saved_column(b, i) ==
    IF i <= Len(b.selection.cursor_column) THEN Some(b.selection.cursor_column[i]) ELSE None

\* where a vertical move of n lines (down when n > 0, up when n < 0) takes selection i
vertical_target(b, i, n) ==
    IF n >= 0
    THEN down_unaligned(b.selection.selections[i].cursor, n, saved_column(b, i), b.text)
    ELSE up_unaligned(b.selection.selections[i].cursor, 0 - n, saved_column(b, i), b.text)

\* a vertical move that left the anchor on the old cursor, as move_cursor does
move_cursor_vertically_from_old_cursor(b, n) ==
    IF some_cursor_out_of_text(b) THEN Panic
    ELSE LET b1 == maybe_save_cursor_column(b)
         IN  [b1 EXCEPT !.selection.selections =
                 [i \in 1..Len(@) |-> Sel(@[i].cursor, vertical_target(b1, i, n),
                                          @[i].was_forward)]]

\* Buffer::move_cursor_down(n) / move_cursor_up(-n)
move_cursor_vertically(b, n) ==
    IF some_cursor_out_of_text(b) THEN Panic
    ELSE LET b1 == maybe_save_cursor_column(b)
         IN  [b1 EXCEPT !.selection.selections =
                 [i \in 1..Len(@) |-> Sel(vertical_target(b1, i, n), vertical_target(b1, i, n),
                                          @[i].was_forward)]]

\* Buffer::extend_cursor_down(n) / extend_cursor_up(-n)
extend_cursor_vertically(b, n) ==
    IF some_cursor_out_of_text(b) THEN Panic
    ELSE LET b1 == maybe_save_cursor_column(b)
         IN  [b1 EXCEPT !.selection.selections =
                 [i \in 1..Len(@) |-> [@[i] EXCEPT !.cursor = vertical_target(b1, i, n)]]]

\* the cursors of a buffer, and their positions
cursor_idxs(b) == {b.selection.selections[i].cursor : i \in 1..Len(b.selection.selections)}
cursor_coords(b) == {to_position(idx, b.text) : idx \in cursor_idxs(b)}

\* Buffer::move_cursor_2(f), f the closure as a function from a cursor of the
\* buffer to the pair <<new anchor, new cursor>>
move_cursor_2(b, f) ==
    [b EXCEPT !.selection.selections =
        [i \in 1..Len(@) |-> Sel(f[@[i].cursor][1], f[@[i].cursor][2], @[i].was_forward)]]

\* Buffer::extend_cursor_2(f), f as for move_cursor_2
extend_cursor_2(b, f) ==
    [b EXCEPT !.selection.selections =
        [i \in 1..Len(@) |-> [@[i] EXCEPT !.cursor = f[@][2]]]]

\* Idx::forward_word and Idx::backward_word at every cursor of the buffer;
\* backward_word panics (prev_char) on a cursor past the end of the text
forward_words(b) == [idx \in cursor_idxs(b) |-> forward_word(idx, b.text)]
backward_words(b) == [idx \in cursor_idxs(b) |-> backward_word(idx, b.text)]

\* Buffer::move_cursor_forward_word
move_cursor_forward_word(b) == move_cursor_2(clear_cursor_column(b), forward_words(b))

\* Buffer::move_cursor_backward_word
move_cursor_backward_word(b) ==
    IF some_cursor_out_of_text(b) THEN Panic
    ELSE move_cursor_2(clear_cursor_column(b), backward_words(b))

\* Buffer::move_line
move_line(b) ==
    IF some_cursor_out_of_text(b) THEN Panic
    ELSE [b EXCEPT !.selection.selections =
             [i \in 1..Len(@) |->
                 Sel(backward_to_line_start(@[i].cursor, b.text),
                     forward_past_line_end(@[i].cursor, b.text), @[i].was_forward)]]

\* Buffer::extend_line
extend_line(b) ==
    IF \E i \in 1..Len(b.selection.selections) :
           from_idx_panics(Min(b.selection.selections[i].cursor,
                               b.selection.selections[i].anchor), b.text)
    THEN Panic
    ELSE [b EXCEPT !.selection.selections =
             [i \in 1..Len(@) |->
                 LET anchor == Min(@[i].cursor, @[i].anchor)
                 IN  Sel(IF to_position(anchor, b.text).column = 0 THEN anchor
                         ELSE backward_to_line_start(anchor, b.text),
                         forward_past_line_end(@[i].cursor, b.text), @[i].was_forward)]]

\* Buffer::reverse_selections
reverse_selections(b) ==
    [b EXCEPT !.selection.selections = [i \in 1..Len(@) |-> reversed(@[i])]]

\* Buffer::collapse
collapse(b) ==
    IF Len(b.selection.selections) > 1
    THEN [b EXCEPT !.selection.selections = <<@[b.selection.primary + 1]>>]
    ELSE [b EXCEPT !.selection.selections[b.selection.primary + 1] = collapsed(@)]

\* SelectionSet::to_lines, for selections inside the text
to_lines(b) ==
    UNION {LET p == sorted_pair(b.selection.selections[i])
               to == to_position(Max(p[1], backward(p[2])), b.text)
               from == to_position(p[1], b.text)
           IN  from.line..to.line : i \in 1..Len(b.selection.selections)}

to_lines_panics(b) ==
    \E i \in 1..Len(b.selection.selections) :
        LET p == sorted_pair(b.selection.selections[i])
        IN  from_idx_panics(Max(p[1], backward(p[2])), b.text)

\* the starts of the affected lines, highest first
line_starts(b) ==
    LET lines == to_lines(b)
        starts == {to_idx(Pos(line, 0), b.text) : line \in lines}
        n == Cardinality(starts)
    IN  [r \in 1..n |-> CHOOSE x \in starts : Cardinality({y \in starts : y > x}) = r - 1]

\* the text Buffer::increase_indent inserts
increase_indent_text(expand_tabs, times) ==
    IF ~expand_tabs THEN <<TAB>> ELSE spaces(tabstop * times)

RECURSIVE increase_indent_loop(_, _, _)
increase_indent_loop(w, insertions, text) ==
    IF insertions = <<>> THEN w
    ELSE increase_indent_loop(Work(rope_insert(w.text, Head(insertions), text),
                                   fix_on_insert(w.selections, Head(insertions), Len(text))),
                              Tail(insertions), text)

\* Buffer::increase_indent
increase_indent(b, times) ==
    IF to_lines_panics(b) THEN Panic
    ELSE Done(b, increase_indent_loop(Work(b.text, b.selection.selections), line_starts(b),
                                      increase_indent_text(b.expand_tabs, times)))

RECURSIVE decrease_indent_loop(_, _, _)
decrease_indent_loop(w, removals, text) ==
    IF removals = <<>> THEN w
    ELSE LET idx == Head(removals)
             to == forward_n(idx, Len(text), w.text)
         IN  IF to - idx < Len(text) \/ slice(w.text, idx, to) # text
             THEN decrease_indent_loop(w, Tail(removals), text)
             ELSE decrease_indent_loop(Work(rope_remove(w.text, idx, to),
                                            fix_on_delete(w.selections, idx, Len(text))),
                                       Tail(removals), text)

\* Buffer::decrease_indent
decrease_indent(b, times) ==
    IF to_lines_panics(b) THEN Panic
    ELSE Done(b, decrease_indent_loop(Work(b.text, b.selection.selections), line_starts(b),
                                      indent_text(b.expand_tabs, times)))

-----------------------------------------------------------------------------
(* BufferState (state.rs): the live buffer, its history and the undo cursor *)

BufferState(b, history, undo_i) ==
    [buffer |-> b, buffer_history |-> history, buffer_history_undo_i |-> undo_i]

\* maybe_commit_undo_point when buffer_history_undo_i is None (lines 44-56)
commit_live_always_push(bs) ==
    [bs EXCEPT !.buffer_history = Append(@, bs.buffer)]

commit_live(bs) ==
    LET h == bs.buffer_history
    IN  IF h # <<>>
        THEN IF h[Len(h)].text # bs.buffer.text
             THEN [bs EXCEPT !.buffer_history = Append(@, bs.buffer)]
             ELSE IF h[Len(h)].selection # bs.buffer.selection
             THEN [bs EXCEPT !.buffer_history[Len(h)].selection = bs.buffer.selection]
             ELSE bs
        ELSE [bs EXCEPT !.buffer_history = Append(@, bs.buffer)]

\* maybe_commit_undo_point when buffer_history_undo_i is Some(restored_i) (lines 29-43)
commit_restored_no_replay(bs) ==
    LET i == bs.buffer_history_undo_i[1] + 1
    IN  IF bs.buffer_history[i].text # bs.buffer.text
        THEN commit_live([bs EXCEPT !.buffer_history_undo_i = None])
        ELSE IF bs.buffer_history[i].selection # bs.buffer.selection
        THEN [bs EXCEPT !.buffer_history[i].selection = bs.buffer.selection]
        ELSE bs

commit_restored(bs) ==
    LET i == bs.buffer_history_undo_i[1] + 1
    IN  IF bs.buffer_history[i].text # bs.buffer.text
        THEN LET new_buffer == bs.buffer
                 replayed == commit_live([bs EXCEPT !.buffer_history_undo_i = None,
                                                    !.buffer = bs.buffer_history[i]])
             IN  commit_live([replayed EXCEPT !.buffer = new_buffer])
        ELSE IF bs.buffer_history[i].selection # bs.buffer.selection
        THEN [bs EXCEPT !.buffer_history[i].selection = bs.buffer.selection]
        ELSE bs

maybe_commit_undo_point_as_live(bs) == commit_live(bs)

\* BufferState::maybe_commit_undo_point
maybe_commit_undo_point(bs) ==
    IF bs.buffer_history_undo_i # None THEN commit_restored(bs) ELSE commit_live(bs)

\* the index BufferState::undo moves to, the commit of the live state done
undo_index_no_saturation(bs, times) ==
    IF bs.buffer_history_undo_i # None
    THEN saturating_sub(bs.buffer_history_undo_i[1], times)
    ELSE saturating_sub(Len(bs.buffer_history), times)

undo_index(bs, times) ==
    IF bs.buffer_history_undo_i # None
    THEN saturating_sub(bs.buffer_history_undo_i[1], times)
    ELSE saturating_sub(saturating_sub(Len(bs.buffer_history), 1), times)

undo_without_commit(bs, times) ==
    LET i == undo_index(bs, times)
    IN  IF i + 1 > Len(bs.buffer_history) THEN Panic
        ELSE [bs EXCEPT !.buffer_history_undo_i = Some(i),
                        !.buffer = bs.buffer_history[i + 1]]

\* BufferState::undo
undo(bs, times) ==
    LET bs1 == IF bs.buffer_history_undo_i # None THEN bs ELSE maybe_commit_undo_point(bs)
        i == undo_index(bs1, times)
    IN  IF i + 1 > Len(bs1.buffer_history) THEN Panic
        ELSE [bs1 EXCEPT !.buffer_history_undo_i = Some(i),
                         !.buffer = bs1.buffer_history[i + 1]]

\* the index BufferState::redo moves to, from Some(undo_i)
redo_index_uncapped(bs, times) == bs.buffer_history_undo_i[1] + times

redo_index(bs, times) ==
    Min(bs.buffer_history_undo_i[1] + times, Len(bs.buffer_history) - 1)

\* BufferState::redo
redo(bs, times) ==
    IF bs.buffer_history_undo_i # None
    THEN LET new_i == redo_index(bs, times)
         IN  IF new_i < 0 \/ new_i + 1 > Len(bs.buffer_history) THEN Panic
             ELSE [bs EXCEPT !.buffer_history_undo_i = Some(new_i),
                             !.buffer = bs.buffer_history[new_i + 1]]
    ELSE bs

-----------------------------------------------------------------------------
(* Values *)

NoOp == [op |-> "init"]

\* SelectionSet::default with the given selections
SelectionSet(selections) == [primary |-> 0, selections |-> selections, cursor_column |-> <<>>]

\* Buffer::from_text, with the selections and the expand-tabs flag set
Buffer(text, selections, expand_tabs) ==
    [text |-> text, selection |-> SelectionSet(selections), expand_tabs |-> expand_tabs]

\* Buffer::from_text: the default selection set (one caret at 0), tabs expanded
from_text(text) == Buffer(text, <<Sel(0, 0, FALSE)>>, TRUE)

\* the modes (mode.rs): Normal { num_prefix }, Insert { extend }, Goto, Command, Find
NormalMode(num_prefix) == [name |-> "normal", num_prefix |-> num_prefix]
InsertMode(extend) == [name |-> "insert", extend |-> extend]
GotoMode == [name |-> "goto"]
\* Command::new: the command line typed so far
CommandMode == [name |-> "command", cmd |-> <<>>]
\* Find::default: the query typed so far and the paths it matches
FindMode == [name |-> "find", match_str |-> <<>>, cur_matches |-> <<>>]

AllSels(maxIdx) ==
    {Sel(a, c, wf) : a \in 0..maxIdx, c \in 0..maxIdx, wf \in BOOLEAN}

-----------------------------------------------------------------------------
(* The fixups as operations of their own: any selection set, any edit *)

InitFix ==
    /\ \E s1 \in AllSels(MaxIdx), s2 \in AllSels(MaxIdx) :
         buffer = Buffer(<<>>, <<s1, s2>>, TRUE)
    /\ buffer_history = <<>>
    /\ buffer_history_undo_i = None
    /\ mode = NormalMode(None)
    /\ yanked = <<>>
    /\ panicked = FALSE
    /\ NoBufferOpen
    /\ last = NoOp
    /\ steps = 1

FixOnInsert(idx, len) ==
    /\ steps > 0
    /\ buffer' = [buffer EXCEPT !.selection.selections = fix_on_insert(@, idx, len)]
    /\ last' = [op |-> "fix_on_insert", idx |-> idx, len |-> len,
                pre |-> buffer.selection.selections]
    /\ steps' = steps - 1
    /\ UNCHANGED <<buffer_history, buffer_history_undo_i, mode, yanked, panicked,
                 buffers, cur_buffer_i, msg>>

FixOnDelete(idx, len) ==
    /\ steps > 0
    /\ buffer' = [buffer EXCEPT !.selection.selections = fix_on_delete(@, idx, len)]
    /\ last' = [op |-> "fix_on_delete", idx |-> idx, len |-> len,
                pre |-> buffer.selection.selections]
    /\ steps' = steps - 1
    /\ UNCHANGED <<buffer_history, buffer_history_undo_i, mode, yanked, panicked,
                 buffers, cur_buffer_i, msg>>

NextFix ==
    \/ \E idx \in 0..MaxIdx, len \in 0..MaxIdx : FixOnInsert(idx, len)
    \/ \E idx \in 0..MaxIdx, len \in 0..MaxIdx : FixOnDelete(idx, len)

SpecFix == InitFix /\ [][NextFix]_vars

-----------------------------------------------------------------------------
(* The Buffer operations, called on their own (Buffer and its fields are    *)
(* public): any small buffer with one or two selections inside the text,    *)
(* then up to MaxSteps operations.                                          *)

InitTexts ==
    { <<>>, <<"a">>, <<NL, "a">> }

InsertStrings == { <<"a">>, <<Wide>>, <<"a", "b">> }

YankedArgs == { <<>>, << <<"a">> >>, << <<"a">>, <<"b">> >> }

SelectionsIn(text) ==
    LET one == AllSels(Len(text))
    IN  {<<s>> : s \in one} \cup {<<s1, s2>> : s1 \in one, s2 \in one}

InitBuf ==
    /\ \E text \in InitTexts, expand_tabs \in BOOLEAN :
         \E selections \in SelectionsIn(text) :
            buffer = Buffer(text, selections, expand_tabs)
    /\ buffer_history = <<>>
    /\ buffer_history_undo_i = None
    /\ mode = NormalMode(None)
    /\ yanked = <<>>
    /\ panicked = FALSE
    /\ NoBufferOpen
    /\ last = NoOp
    /\ steps = MaxSteps

\* the insert this operation follows at once, if it does: its arguments and pre-state
insert_before ==
    IF last.op = "insert" THEN Some([arg |-> last.arg, pre |-> last.pre]) ELSE None

\* one operation on the live buffer: its result, or the panic that ends the process
BufOp(name, arg, result, ynk) ==
    /\ ~panicked
    /\ steps > 0
    /\ result # Panic => Len(result.text) <= MaxLen
    /\ IF result = Panic
       THEN buffer' = buffer /\ panicked' = TRUE /\ yanked' = yanked
       ELSE buffer' = result /\ panicked' = FALSE /\ yanked' = ynk
    /\ last' = [op |-> name, arg |-> arg, pre |-> buffer, inserted |-> insert_before]
    /\ steps' = steps - 1
    /\ UNCHANGED <<buffer_history, buffer_history_undo_i, mode,
                 buffers, cur_buffer_i, msg>>

\* each disjunct is one pub fn of Buffer called on the live buffer
NextBuf ==
    \/ \E s \in InsertStrings, extend \in BOOLEAN :
          BufOp("insert", <<s, extend>>, insert(buffer, s, extend), yanked)
    \/ \E extend \in BOOLEAN :
          BufOp("insert_tab", <<extend>>, insert_tab(buffer, extend), yanked)
    \/ \E extend \in BOOLEAN :
          BufOp("insert_enter", <<extend>>, insert_enter(buffer, extend), yanked)
    \/ BufOp("open", <<>>, open(buffer), yanked)
    \/ BufOp("delete", <<>>, delete(buffer), delete_yanked(buffer))
    \/ BufOp("yank", <<>>, buffer, yank(buffer))
    \/ \E ynk \in YankedArgs : BufOp("paste", <<ynk>>, paste(buffer, ynk), yanked)
    \/ \E ynk \in YankedArgs :
          BufOp("paste_extend", <<ynk>>, paste_extend(buffer, ynk), yanked)
    \/ \E extend \in BOOLEAN :
          BufOp("backspace", <<extend>>, backspace(buffer, extend), yanked)
    \/ \E n \in 1..MaxTimes :
          BufOp("move_cursor_backward", <<n>>, move_cursor_backward(buffer, n), yanked)
    \/ \E n \in 1..MaxTimes :
          BufOp("move_cursor_forward", <<n>>, move_cursor_forward(buffer, n), yanked)
    \/ \E n \in 1..MaxTimes :
          BufOp("extend_cursor_backward", <<n>>, extend_cursor_backward(buffer, n), yanked)
    \/ \E n \in 1..MaxTimes :
          BufOp("extend_cursor_forward", <<n>>, extend_cursor_forward(buffer, n), yanked)
    \/ \E n \in (0 - MaxTimes)..MaxTimes :
          BufOp("move_cursor_vertically", <<n>>, move_cursor_vertically(buffer, n), yanked)
    \/ \E n \in (0 - MaxTimes)..MaxTimes :
          BufOp("extend_cursor_vertically", <<n>>, extend_cursor_vertically(buffer, n), yanked)
    \/ BufOp("move_cursor_forward_word", <<>>, move_cursor_forward_word(buffer), yanked)
    \/ BufOp("move_cursor_backward_word", <<>>, move_cursor_backward_word(buffer), yanked)
    \/ BufOp("move_cursor_2", <<"forward_word">>,
             move_cursor_2(buffer, forward_words(buffer)), yanked)
    \/ BufOp("move_cursor_2", <<"backward_word">>,
             IF some_cursor_out_of_text(buffer) THEN Panic
             ELSE move_cursor_2(buffer, backward_words(buffer)), yanked)
    \/ BufOp("extend_cursor_2", <<"forward_word">>,
             extend_cursor_2(buffer, forward_words(buffer)), yanked)
    \/ BufOp("extend_cursor_2", <<"backward_word">>,
             IF some_cursor_out_of_text(buffer) THEN Panic
             ELSE extend_cursor_2(buffer, backward_words(buffer)), yanked)
    \/ BufOp("move_line", <<>>, move_line(buffer), yanked)
    \/ BufOp("extend_line", <<>>, extend_line(buffer), yanked)
    \/ BufOp("reverse_selections", <<>>, reverse_selections(buffer), yanked)
    \/ BufOp("collapse", <<>>, collapse(buffer), yanked)
    \/ \E n \in 1..MaxTimes :
          BufOp("increase_indent", <<n>>, increase_indent(buffer, n), yanked)
    \/ \E n \in 1..MaxTimes :
          BufOp("decrease_indent", <<n>>, decrease_indent(buffer, n), yanked)

SpecBuf == InitBuf /\ [][NextBuf]_vars

\* every anchor and cursor of the live buffer is an offset of its text
SelectionsInText(b) ==
    \A i \in 1..Len(b.selection.selections) :
        /\ b.selection.selections[i].anchor \in 0..len_chars(b.text)
        /\ b.selection.selections[i].cursor \in 0..len_chars(b.text)

-----------------------------------------------------------------------------
(* C1: after any sequence of Buffer operations every selection's anchor and *)
(* cursor is an offset in [0, text length in characters].                   *)

C1_IdxInRange == SelectionsInText(buffer)

-----------------------------------------------------------------------------
(* C2: fix_on_insert(O, L) shifts an endpoint strictly after O by L, leaves *)
(* an endpoint strictly before O alone, and shifts an endpoint exactly at O *)
(* only when it is the trailing endpoint of the selection's direction (the  *)
(* cursor of a forward selection, the anchor of a backward one); the other  *)
(* endpoint tied at O stays.                                                *)

\* what the rule of C2 makes of endpoint e, trailing or not
InsertRule(e, trailing, O, L) ==
    IF e > O THEN e + L
    ELSE IF e < O THEN e
    ELSE IF trailing THEN e + L ELSE e

C2_FixOnInsert ==
    last.op = "fix_on_insert" =>
        \A i \in 1..Len(last.pre) :
            LET old == last.pre[i]
                new == buffer.selection.selections[i]
                fwd == IF old.anchor # old.cursor THEN old.anchor < old.cursor
                       ELSE old.was_forward
            IN  /\ new.cursor = InsertRule(old.cursor, fwd, last.idx, last.len)
                /\ new.anchor = InsertRule(old.anchor, ~fwd, last.idx, last.len)
                /\ new.was_forward = old.was_forward

\* an insertion of positive length at an offset where a forward and a
\* backward selection both have an endpoint, one of them a caret
C2_Witness ==
    /\ last.op = "fix_on_insert"
    /\ last.len > 0
    /\ \E i, j \in 1..Len(last.pre) :
         /\ last.pre[i].cursor = last.idx /\ last.pre[i].anchor = last.idx
         /\ last.pre[i].was_forward
         /\ last.pre[j].cursor = last.idx /\ last.pre[j].anchor > last.idx
         /\ buffer.selection.selections[i].cursor = last.idx + last.len
         /\ buffer.selection.selections[j].cursor = last.idx

-----------------------------------------------------------------------------
(* C3: fix_on_delete of the range [O, O+L) moves an endpoint e with         *)
(* O < e < O+L to O, an endpoint e >= O+L to e-L, and leaves e <= O alone;  *)
(* no endpoint above O ends below O.                                        *)

DeleteRule(e, O, L) ==
    IF O < e /\ e < O + L THEN O
    ELSE IF e >= O + L THEN e - L
    ELSE e

C3_FixOnDelete ==
    last.op = "fix_on_delete" =>
        \A i \in 1..Len(last.pre) :
            LET old == last.pre[i]
                new == buffer.selection.selections[i]
            IN  /\ new.cursor = DeleteRule(old.cursor, last.idx, last.len)
                /\ new.anchor = DeleteRule(old.anchor, last.idx, last.len)
                /\ new.was_forward = old.was_forward
                /\ (old.cursor >= last.idx => new.cursor >= last.idx)
                /\ (old.anchor >= last.idx => new.anchor >= last.idx)

\* one selection has an endpoint inside the removed range and one after it
C3_Witness ==
    /\ last.op = "fix_on_delete"
    /\ last.len > 1
    /\ \E i \in 1..Len(last.pre) :
         /\ last.idx < last.pre[i].cursor /\ last.pre[i].cursor < last.idx + last.len
         /\ last.pre[i].anchor > last.idx + last.len
         /\ buffer.selection.selections[i].cursor = last.idx
         /\ buffer.selection.selections[i].anchor = last.pre[i].anchor - last.len

-----------------------------------------------------------------------------
(* C4: insert(s, extend) leaves the text equal to the old text with exactly *)
(* one copy of s at each selection's pre-call cursor offset (as many copies *)
(* at an offset as there are cursors on it) and no other character changed. *)

RECURSIVE copies(_, _)
copies(s, n) == IF n = 0 THEN <<>> ELSE s \o copies(s, n - 1)

\* the number of selections whose cursor is at offset p
cursors_at(selections, p) ==
    Cardinality({i \in 1..Len(selections) : selections[i].cursor = p})

\* text from offset p on, with the copies of s due at every offset >= p
RECURSIVE inserted_from(_, _, _, _)
inserted_from(text, selections, s, p) ==
    IF p > Len(text) THEN <<>>
    ELSE copies(s, cursors_at(selections, p))
           \o (IF p < Len(text) THEN <<text[p + 1]>> ELSE <<>>)
           \o inserted_from(text, selections, s, p + 1)

C4_InsertAtEveryCursor ==
    last.op = "insert" =>
        /\ ~panicked
        /\ buffer.text =
             inserted_from(last.pre.text, last.pre.selection.selections, last.arg[1], 0)
        /\ Len(buffer.text) =
             Len(last.pre.text)
               + Len(last.arg[1]) * Len(last.pre.selection.selections)

\* the same for calls made while every selection is inside the text
C4_InsertFromSelectionsInText ==
    (last.op = "insert" /\ SelectionsInText(last.pre)) => C4_InsertAtEveryCursor

-----------------------------------------------------------------------------
(* C13: delete() on pairwise disjoint selections returns one entry per      *)
(* selection, in selection order, entry i the text of selection i's span,   *)
(* or of its one-character direction-marker span when selection i is a      *)
(* caret; afterwards the text is the old text with exactly those spans      *)
(* removed and every selection is a caret at the start of its own removed   *)
(* span.                                                                    *)

\* the span <<from, to>> of a selection, a caret's being the one character
\* on the side it faces (none at the edge of the text)
span_or_marker(sel, text) ==
    IF sel.anchor # sel.cursor
    THEN <<Min(sel.anchor, sel.cursor), Max(sel.anchor, sel.cursor)>>
    ELSE IF sel.was_forward THEN <<Max(sel.cursor - 1, 0), sel.cursor>>
    ELSE <<sel.cursor, Min(sel.cursor + 1, Len(text))>>

\* no two selections share a character: their spans <<from, to>> do not overlap
pairwise_disjoint(selections) ==
    \A i, j \in 1..Len(selections) :
        i < j => \/ Max(selections[i].anchor, selections[i].cursor)
                      <= Min(selections[j].anchor, selections[j].cursor)
                 \/ Max(selections[j].anchor, selections[j].cursor)
                      <= Min(selections[i].anchor, selections[i].cursor)

\* the offsets of the characters in the spans delete is to remove
removed_offsets(selections, text) ==
    UNION {span_or_marker(selections[i], text)[1]
             ..(span_or_marker(selections[i], text)[2] - 1) : i \in 1..Len(selections)}

\* the text without the characters at the offsets in S
without(text, S) ==
    LET kept == {q \in 0..(Len(text) - 1) : q \notin S}
    IN  [r \in 1..Cardinality(kept) |->
            text[1 + CHOOSE q \in kept : Cardinality({k \in kept : k < q}) = r - 1]]

\* what C13 says of the delete that led to this state
DeleteOutcome ==
    LET pre == last.pre
        sels == pre.selection.selections
        S == removed_offsets(sels, pre.text)
    IN  /\ ~panicked
        /\ Len(yanked) = Len(sels)
        /\ \A i \in 1..Len(sels) :
              yanked[i] = slice(pre.text, span_or_marker(sels[i], pre.text)[1],
                                span_or_marker(sels[i], pre.text)[2])
        /\ buffer.text = without(pre.text, S)
        /\ Len(buffer.selection.selections) = Len(sels)
        /\ \A i \in 1..Len(sels) :
              LET start == span_or_marker(sels[i], pre.text)[1]
                  at == start - Cardinality({q \in S : q < start})
              IN  /\ buffer.selection.selections[i].anchor = at
                  /\ buffer.selection.selections[i].cursor = at

C13_Delete ==
    (last.op = "delete" /\ pairwise_disjoint(last.pre.selection.selections)) => DeleteOutcome

\* the spans delete is to remove, the direction markers of carets included,
\* do not overlap
removed_spans_disjoint(selections, text) ==
    \A i, j \in 1..Len(selections) :
        i < j => \/ span_or_marker(selections[i], text)[2]
                      <= span_or_marker(selections[j], text)[1]
                 \/ span_or_marker(selections[j], text)[2]
                      <= span_or_marker(selections[i], text)[1]

\* C13 for selections inside the text whose removed spans do not overlap
C13_DeleteOfDisjointSpans ==
    (/\ last.op = "delete"
     /\ SelectionsInText(last.pre)
     /\ removed_spans_disjoint(last.pre.selection.selections, last.pre.text)) => DeleteOutcome

-----------------------------------------------------------------------------
(* C14: yank() changes neither the text nor any selection, and returns      *)
(* exactly the list of spans that delete() would return from the same       *)
(* state: one entry per selection in selection order, a caret giving its    *)
(* non-empty one-character direction-marker span, not an empty span.        *)

C14_Yank ==
    last.op = "yank" =>
        /\ ~panicked
        /\ buffer = last.pre
        /\ yanked = delete_yanked(last.pre)

\* no selection is a caret
no_caret(selections) ==
    \A i \in 1..Len(selections) : selections[i].anchor # selections[i].cursor

\* C14 for selections inside the text, none of them a caret
C14_YankOfSpans ==
    (/\ last.op = "yank"
     /\ SelectionsInText(last.pre)
     /\ no_caret(last.pre.selection.selections)) => C14_Yank

\* yank leaves the buffer alone and gives one entry per selection, whatever the selections
C14_YankFrame ==
    last.op = "yank" =>
        /\ ~panicked
        /\ buffer = last.pre
        /\ Len(yanked) = Len(last.pre.selection.selections)

-----------------------------------------------------------------------------
(* C15: paste(yanked) and paste_extend(yanked) insert yanked[i] at          *)
(* selection i's cursor for every i below both lengths: with the selections *)
(* in ascending offset order, entry 0 goes to the lowest-offset cursor,     *)
(* entry 1 to the next one, and so on, so that yank() followed by paste of  *)
(* its result puts each selection's own text at that selection's own cursor.*)

\* the cursors of the selections are in strictly ascending order
ascending_cursors(selections) ==
    \A i, j \in 1..Len(selections) : i < j => selections[i].cursor < selections[j].cursor

\* text from offset p on, entry k of ynk put in at offset at[k] (the offsets distinct)
RECURSIVE pasted_from(_, _, _, _)
pasted_from(text, at, ynk, p) ==
    IF p > Len(text) THEN <<>>
    ELSE (IF \E k \in 1..Len(at) : at[k] = p
          THEN ynk[CHOOSE k \in 1..Len(at) : at[k] = p] ELSE <<>>)
           \o (IF p < Len(text) THEN <<text[p + 1]>> ELSE <<>>)
           \o pasted_from(text, at, ynk, p + 1)

\* the cursors of the first entries-many selections, in selection order
cursors_in_selection_order(selections, entries) ==
    [k \in 1..Min(entries, Len(selections)) |-> selections[k].cursor]

C15_PasteAtOwnCursor ==
    (/\ last.op \in {"paste", "paste_extend"}
     /\ ascending_cursors(last.pre.selection.selections)) =>
        /\ ~panicked
        /\ buffer.text =
             pasted_from(last.pre.text,
                         cursors_in_selection_order(last.pre.selection.selections,
                                                    Len(last.arg[1])),
                         last.arg[1], 0)

\* the cursors of the first entries-many selections, the highest offset first
cursors_highest_first(selections, entries) ==
    [k \in 1..Min(entries, Len(selections)) |-> selections[Len(selections) + 1 - k].cursor]

\* what paste does for selections inside the text: entry 0 goes to the
\* highest cursor, entry 1 to the next lower one
C15_PasteHighestCursorFirst ==
    (/\ last.op \in {"paste", "paste_extend"}
     /\ SelectionsInText(last.pre)
     /\ ascending_cursors(last.pre.selection.selections)) =>
        /\ ~panicked
        /\ buffer.text =
             pasted_from(last.pre.text,
                         cursors_highest_first(last.pre.selection.selections,
                                               Len(last.arg[1])),
                         last.arg[1], 0)

-----------------------------------------------------------------------------
(* C16: when yanked has fewer entries than there are selections,            *)
(* paste(yanked) and paste_extend(yanked) leave every unmatched selection   *)
(* untouched: its span (the text between anchor and cursor) and its         *)
(* anchor/cursor roles are as before, only shifted by text inserted at      *)
(* lower offsets; with an empty yanked list neither the text nor any        *)
(* selection changes.                                                       *)

\* the text between the anchor and the cursor of a selection inside the text
span_text(sel, text) ==
    slice(text, Min(sel.anchor, sel.cursor), Max(sel.anchor, sel.cursor))

\* selection new of text new_text is selection old of text old_text, shifted
same_span(new, new_text, old, old_text) ==
    /\ new.cursor - new.anchor = old.cursor - old.anchor
    /\ new.cursor >= old.cursor
    /\ new.was_forward = old.was_forward
    /\ Max(new.anchor, new.cursor) <= Len(new_text)
    /\ span_text(new, new_text) = span_text(old, old_text)

C16_PasteUnmatchedUntouched ==
    (/\ last.op \in {"paste", "paste_extend"}
     /\ ascending_cursors(last.pre.selection.selections)
     /\ Len(last.arg[1]) < Len(last.pre.selection.selections)) =>
        /\ ~panicked
        /\ \A i \in (Len(last.arg[1]) + 1)..Len(last.pre.selection.selections) :
              same_span(buffer.selection.selections[i], buffer.text,
                        last.pre.selection.selections[i], last.pre.text)
        /\ last.arg[1] = <<>> => buffer = last.pre

\* paste_extend of an empty list changes nothing; paste of an empty list
\* keeps the text and collapses every selection to its cursor
C16_PasteNothing ==
    (last.op \in {"paste", "paste_extend"} /\ last.arg[1] = <<>>) =>
        /\ ~panicked
        /\ buffer.text = last.pre.text
        /\ buffer.selection.selections =
             IF last.op = "paste" THEN collapse_all(last.pre.selection.selections)
             ELSE last.pre.selection.selections

-----------------------------------------------------------------------------
(* C17: round trip: for any buffer state and any text s, insert of s        *)
(* followed by a delete of exactly the inserted range(s) returns the buffer *)
(* text and every selection (anchor, cursor and direction) to their         *)
(* pre-insert values.                                                       *)

\* the range <<from, to>> that the copy of s put in at selection i's cursor
\* takes in the text after the insert: the copies at lower cursors, and at
\* the same cursor by selections of lower index, come before it
inserted_range(selections, i, s) ==
    LET before == Cardinality({j \in 1..Len(selections) :
                                  \/ selections[j].cursor < selections[i].cursor
                                  \/ (selections[j].cursor = selections[i].cursor /\ j < i)})
        from == selections[i].cursor + before * Len(s)
    IN  <<from, from + Len(s)>>

\* the delete that led to this state followed an insert at once, and the
\* range it removed for every selection was the inserted range
deleted_the_inserted ==
    /\ last.op = "delete"
    /\ last.inserted # None
    /\ \A i \in 1..Len(last.pre.selection.selections) :
          delete_range(last.pre.selection.selections[i], last.pre.text)
            = inserted_range(last.inserted[1].pre.selection.selections, i,
                             last.inserted[1].arg[1])

C17_RoundTrip ==
    deleted_the_inserted =>
        /\ ~panicked
        /\ buffer.text = last.inserted[1].pre.text
        /\ buffer.selection.selections = last.inserted[1].pre.selection.selections

\* the round trip gives back the text and every cursor when the selections
\* the delete is handed are inside the text
C17_RoundTripTextAndCursors ==
    (deleted_the_inserted /\ SelectionsInText(last.pre)) =>
        /\ ~panicked
        /\ buffer.text = last.inserted[1].pre.text
        /\ \A i \in 1..Len(buffer.selection.selections) :
              buffer.selection.selections[i].cursor
                = last.inserted[1].pre.selection.selections[i].cursor

-----------------------------------------------------------------------------
(* BufferState on its own: a freshly opened buffer, then edits of the live  *)
(* buffer interleaved with maybe_commit_undo_point, undo and redo.          *)

\* the texts the edits of the undo scenarios move between
UndoTexts == { <<>>, <<"a">> }

InitUndo ==
    /\ \E text \in UndoTexts : buffer = from_text(text)
    /\ buffer_history = <<>>
    /\ buffer_history_undo_i = None
    /\ mode = NormalMode(None)
    /\ yanked = <<>>
    /\ panicked = FALSE
    /\ NoBufferOpen
    /\ last = [op |-> "init", fork |-> None]
    /\ steps = 0

\* the live BufferState
cur_buffer_state == BufferState(buffer, buffer_history, buffer_history_undo_i)

\* a commit that forks: mid-history, the live text differs from history[i]
is_fork(bs) ==
    /\ bs.buffer_history_undo_i # None
    /\ bs.buffer_history[bs.buffer_history_undo_i[1] + 1].text # bs.buffer.text

\* the last fork and the calls made since, kept for two calls
fork_after(name, arg) ==
    IF name = "commit" /\ is_fork(cur_buffer_state)
    THEN Some([point |-> buffer_history[buffer_history_undo_i[1] + 1],
               edited |-> buffer,
               since |-> <<>>])
    ELSE IF last.fork # None /\ Len(last.fork[1].since) < 2
    THEN Some([last.fork[1] EXCEPT !.since = Append(@, <<name, arg>>)])
    ELSE None

\* the undo that a redo follows at once, and the state it was called in
undo_before(name) ==
    IF name = "redo" /\ last.op = "undo" /\ ~panicked
    THEN Some([arg |-> last.arg, pre |-> last.pre])
    ELSE None

\* one call on the BufferState: its result, or the panic that ends the process
UndoOp(name, arg, result) ==
    /\ ~panicked
    /\ result # Panic =>
          /\ result.buffer.text \in UndoTexts
          /\ Len(result.buffer_history) <= MaxHist
    /\ IF result = Panic
       THEN /\ panicked' = TRUE
            /\ UNCHANGED <<buffer, buffer_history, buffer_history_undo_i>>
       ELSE /\ panicked' = FALSE
            /\ buffer' = result.buffer
            /\ buffer_history' = result.buffer_history
            /\ buffer_history_undo_i' = result.buffer_history_undo_i
    /\ last' = [op |-> name, arg |-> arg, pre |-> cur_buffer_state,
                fork |-> fork_after(name, arg), undone |-> undo_before(name)]
    /\ UNCHANGED <<mode, yanked, steps,
                 buffers, cur_buffer_i, msg>>

\* an operation of Buffer on the live buffer
edited(b) == IF b = Panic THEN Panic ELSE [cur_buffer_state EXCEPT !.buffer = b]

UndoInsert == UndoOp("insert", <<>>, edited(insert(buffer, <<"a">>, FALSE)))
UndoDelete == UndoOp("delete", <<>>, edited(delete(buffer)))
UndoMoveBackward == UndoOp("move", <<>>, edited(move_cursor_backward(buffer, 1)))
Commit == UndoOp("commit", <<>>, maybe_commit_undo_point(cur_buffer_state))
Undo(times) == UndoOp("undo", times, undo(cur_buffer_state, times))
Redo(times) == UndoOp("redo", times, redo(cur_buffer_state, times))

NextUndo ==
    \/ UndoInsert
    \/ UndoDelete
    \/ UndoMoveBackward
    \/ Commit
    \/ \E times \in 0..MaxTimes : Undo(times)
    \/ \E times \in 0..MaxTimes : Redo(times)

SpecUndo == InitUndo /\ [][NextUndo]_vars

-----------------------------------------------------------------------------
(* C5: maybe_commit_undo_point in the live state appends one snapshot equal *)
(* to the live buffer iff history is empty or the live text differs from    *)
(* the last entry's text; otherwise the history keeps its length and the    *)
(* last entry's selection becomes the live selection.                       *)

\* the history the rule of C5 gives for history h and live buffer b
CommitRule(h, b) ==
    IF h = <<>> \/ h[Len(h)].text # b.text
    THEN Append(h, b)
    ELSE [k \in 1..Len(h) |->
            IF k = Len(h) THEN [h[k] EXCEPT !.selection = b.selection] ELSE h[k]]

C5_CommitLive ==
    (last.op = "commit" /\ last.pre.buffer_history_undo_i = None) =>
        /\ ~panicked
        /\ buffer = last.pre.buffer
        /\ buffer_history_undo_i = None
        /\ buffer_history = CommitRule(last.pre.buffer_history, last.pre.buffer)
        /\ Len(buffer_history) =
             Len(last.pre.buffer_history)
               + (IF \/ last.pre.buffer_history = <<>>
                     \/ last.pre.buffer_history[Len(last.pre.buffer_history)].text
                          # last.pre.buffer.text
                  THEN 1 ELSE 0)

\* a live commit after a cursor move only: no new entry, the last entry's selection moved
C5_Witness ==
    /\ last.op = "commit"
    /\ last.pre.buffer_history_undo_i = None
    /\ last.pre.buffer_history # <<>>
    /\ last.pre.buffer_history[Len(last.pre.buffer_history)].text = last.pre.buffer.text
    /\ last.pre.buffer_history[Len(last.pre.buffer_history)].selection
         # last.pre.buffer.selection
    /\ Len(buffer_history) = Len(last.pre.buffer_history)
    /\ buffer_history[Len(buffer_history)].selection = buffer.selection

-----------------------------------------------------------------------------
(* C6: a commit that forks (mid-history at i, live text differing from      *)
(* history[i].text) ends live, with the edited buffer as the last entry,    *)
(* history[i]'s text in the entry before it, every entry that was in the    *)
(* history still present in the same order, and the edited buffer live.     *)

\* g holds the entries of h, in h's order
RECURSIVE is_subsequence(_, _)
is_subsequence(h, g) ==
    IF h = <<>> THEN TRUE
    ELSE IF g = <<>> THEN FALSE
    ELSE IF Head(h) = Head(g) THEN is_subsequence(Tail(h), Tail(g))
    ELSE is_subsequence(h, Tail(g))

\* the parts of C6 other than the entries staying
ForkOutcome ==
    LET pre == last.pre
        n == Len(buffer_history)
    IN  /\ ~panicked
        /\ buffer_history_undo_i = None
        /\ buffer = pre.buffer
        /\ n >= 2
        /\ buffer_history[n] = pre.buffer
        /\ buffer_history[n - 1].text
             = pre.buffer_history[pre.buffer_history_undo_i[1] + 1].text

C6_Fork ==
    (last.op = "commit" /\ is_fork(last.pre)) =>
        /\ ForkOutcome
        /\ is_subsequence(last.pre.buffer_history, buffer_history)

\* C6 with the entries' texts staying, and every entry but the last one whole
C6_ForkKeepsTexts ==
    (last.op = "commit" /\ is_fork(last.pre)) =>
        /\ ForkOutcome
        /\ Len(buffer_history) >= Len(last.pre.buffer_history)
        /\ \A k \in 1..Len(last.pre.buffer_history) :
              /\ buffer_history[k].text = last.pre.buffer_history[k].text
              /\ k < Len(last.pre.buffer_history)
                    => buffer_history[k] = last.pre.buffer_history[k]

-----------------------------------------------------------------------------
(* C7: undo(n) from the live state commits the pending edit and sets the    *)
(* undo cursor to max(0, history.len()-1-n); from mid-history at i it sets  *)
(* the undo cursor to max(0, i-n); either way the live buffer becomes a     *)
(* copy of the snapshot at the new undo cursor.                             *)

C7_Undo ==
    last.op = "undo" =>
        LET pre == last.pre
            n == last.arg
            committed == IF pre.buffer_history_undo_i = None
                         THEN CommitRule(pre.buffer_history, pre.buffer)
                         ELSE pre.buffer_history
            target == IF pre.buffer_history_undo_i = None
                      THEN Max(0, Len(committed) - 1 - n)
                      ELSE Max(0, pre.buffer_history_undo_i[1] - n)
        IN  /\ ~panicked
            /\ buffer_history = committed
            /\ buffer_history_undo_i = Some(target)
            /\ buffer = buffer_history[target + 1]

\* undo(n), n > 0, from the live state with an edit not yet committed
C7_Witness ==
    /\ last.op = "undo"
    /\ last.arg > 0
    /\ last.pre.buffer_history_undo_i = None
    /\ last.pre.buffer_history # <<>>
    /\ last.pre.buffer_history[Len(last.pre.buffer_history)].text # last.pre.buffer.text
    /\ Len(buffer_history) = Len(last.pre.buffer_history) + 1
    /\ buffer_history_undo_i = Some(Len(buffer_history) - 1 - last.arg)
    /\ buffer = buffer_history[Len(buffer_history) - last.arg]
    /\ buffer # last.pre.buffer

-----------------------------------------------------------------------------
(* C8: redo(n) in the live state changes nothing; mid-history at i it sets  *)
(* the undo cursor to min(i+n, history.len()-1) and makes the live buffer a *)
(* copy of that snapshot, staying mid-history.                              *)

C8_Redo ==
    last.op = "redo" =>
        LET pre == last.pre
            n == last.arg
        IN  /\ ~panicked
            /\ buffer_history = pre.buffer_history
            /\ IF pre.buffer_history_undo_i = None
               THEN /\ buffer = pre.buffer
                    /\ buffer_history_undo_i = None
               ELSE LET target == Min(pre.buffer_history_undo_i[1] + n,
                                      Len(pre.buffer_history) - 1)
                    IN  /\ buffer_history_undo_i = Some(target)
                        /\ buffer = buffer_history[target + 1]

\* a redo of more steps than the history has left: capped at the last entry
C8_Witness ==
    /\ last.op = "redo"
    /\ last.pre.buffer_history_undo_i # None
    /\ last.pre.buffer_history_undo_i[1] + last.arg > Len(last.pre.buffer_history) - 1
    /\ last.pre.buffer_history_undo_i[1] < Len(last.pre.buffer_history) - 1
    /\ buffer_history_undo_i = Some(Len(buffer_history) - 1)
    /\ buffer = buffer_history[Len(buffer_history)]

-----------------------------------------------------------------------------
(* C9: after an edit made mid-history and its commit, one undo(1) restores  *)
(* the buffer (text and selections) of the mid-history point that was       *)
(* edited; the edited buffer stays the newest entry and a following redo(1) *)
(* restores it.                                                             *)

C9_UndoFork ==
    /\ (last.fork # None /\ last.fork[1].since = << <<"undo", 1>> >>) =>
          /\ ~panicked
          /\ buffer = last.fork[1].point
          /\ buffer_history[Len(buffer_history)] = last.fork[1].edited
    /\ (last.fork # None /\ last.fork[1].since = << <<"undo", 1>>, <<"redo", 1>> >>) =>
          /\ ~panicked
          /\ buffer = last.fork[1].edited
          /\ buffer_history[Len(buffer_history)] = last.fork[1].edited

\* a fork from a point that was not the newest entry, then undo(1) and redo(1)
C9_Witness ==
    /\ last.fork # None
    /\ last.fork[1].since = << <<"undo", 1>>, <<"redo", 1>> >>
    /\ Len(buffer_history) > 2
    /\ last.pre.buffer = last.fork[1].point
    /\ buffer = last.fork[1].edited
    /\ last.fork[1].point.selection # last.fork[1].edited.selection

-----------------------------------------------------------------------------
(* C11: undo(n) and redo(n) never index outside the history and never fail, *)
(* an empty history included; an undo cursor Some(i) always has             *)
(* i < history.len(); undo at the oldest snapshot and redo at the newest    *)
(* snapshot leave the buffer unchanged.                                     *)

\* the BufferState is restored at entry i (0-based): the cursor is there and
\* the live buffer is that snapshot
restored_at(bs, i) ==
    /\ bs.buffer_history_undo_i = Some(i)
    /\ i < Len(bs.buffer_history)
    /\ bs.buffer = bs.buffer_history[i + 1]

C11_HistoryExhaustion ==
    /\ buffer_history_undo_i # None =>
          /\ buffer_history_undo_i[1] >= 0
          /\ buffer_history_undo_i[1] < Len(buffer_history)
    /\ last.op \in {"undo", "redo"} => ~panicked
    /\ (last.op = "undo" /\ restored_at(last.pre, 0)) => cur_buffer_state = last.pre
    /\ (last.op = "redo" /\ restored_at(last.pre, Len(last.pre.buffer_history) - 1)) =>
          cur_buffer_state = last.pre
    /\ (last.op = "redo" /\ last.pre.buffer_history_undo_i = None) =>
          cur_buffer_state = last.pre

\* an undo of several steps at the oldest of several snapshots
C11_Witness ==
    /\ last.op = "undo"
    /\ last.arg > 1
    /\ Len(last.pre.buffer_history) > 1
    /\ restored_at(last.pre, 0)
    /\ ~panicked
    /\ cur_buffer_state = last.pre

-----------------------------------------------------------------------------
(* C12: maybe_commit_undo_point mid-history at i, the live text equal to    *)
(* history[i].text and the live selection different, overwrites only        *)
(* history[i].selection with the live selection: the undo cursor stays      *)
(* Some(i), the history keeps its length and every other entry, and no text *)
(* in the history changes.                                                  *)

\* mid-history, the live buffer differs from history[i] in its selection only
selection_moved_mid_history(bs) ==
    /\ bs.buffer_history_undo_i # None
    /\ bs.buffer_history[bs.buffer_history_undo_i[1] + 1].text = bs.buffer.text
    /\ bs.buffer_history[bs.buffer_history_undo_i[1] + 1].selection # bs.buffer.selection

C12_CommitSelectionMidHistory ==
    (last.op = "commit" /\ selection_moved_mid_history(last.pre)) =>
        LET pre == last.pre
            i == pre.buffer_history_undo_i[1] + 1
        IN  /\ ~panicked
            /\ buffer_history_undo_i = pre.buffer_history_undo_i
            /\ buffer = pre.buffer
            /\ Len(buffer_history) = Len(pre.buffer_history)
            /\ buffer_history[i] =
                 [pre.buffer_history[i] EXCEPT !.selection = pre.buffer.selection]
            /\ \A k \in 1..Len(pre.buffer_history) :
                  /\ k # i => buffer_history[k] = pre.buffer_history[k]
                  /\ buffer_history[k].text = pre.buffer_history[k].text

\* such a commit at a point that is not the newest entry
C12_Witness ==
    /\ last.op = "commit"
    /\ selection_moved_mid_history(last.pre)
    /\ last.pre.buffer_history_undo_i[1] + 1 < Len(last.pre.buffer_history)
    /\ buffer_history[last.pre.buffer_history_undo_i[1] + 1].selection = buffer.selection
    /\ buffer_history # last.pre.buffer_history

-----------------------------------------------------------------------------
(* The editor driven by keys: State::handle_key hands each key to the       *)
(* current mode (state.rs, mode/normal.rs, mode/insert.rs, mode/goto.rs,    *)
(* mode/command.rs, mode/find.rs). One buffer is open.                      *)

\* the State: the open buffer's BufferState, the mode, the yanked spans, quit,
\* and the paths handed to State::open_buffer by the key being handled
cur_state ==
    [buffer |-> buffer, buffer_history |-> buffer_history,
     buffer_history_undo_i |-> buffer_history_undo_i, mode |-> mode, yanked |-> yanked,
     quit |-> FALSE, opened |-> <<>>]

\* State::set_mode
set_mode(st, m) ==
    IF st = Panic THEN Panic ELSE [maybe_commit_undo_point(st) EXCEPT !.mode = m]

\* the state with the outcome b of an operation on the current buffer
with_buffer(st, b) == IF b = Panic THEN Panic ELSE [st EXCEPT !.buffer = b]

\* Buffer::move_cursor_coord(f), f the closure as a function from the position
\* of a cursor in the buffer's text to its new position
move_cursor_coord(b, f) ==
    IF some_cursor_out_of_text(b) THEN Panic
    ELSE [b EXCEPT !.selection.selections =
             [i \in 1..Len(@) |->
                 Sel(@[i].cursor, to_idx(f[to_position(@[i].cursor, b.text)], b.text),
                     @[i].was_forward)]]

\* Buffer::move_cursor(f) for an f that reads the text around the cursor, f the
\* closure as a function from a cursor of the buffer to its new place
move_cursor(b, f) ==
    IF some_cursor_out_of_text(b) THEN Panic
    ELSE [b EXCEPT !.selection.selections =
             [i \in 1..Len(@) |-> Sel(@[i].cursor, f[@[i].cursor], @[i].was_forward)]]

\* Buffer::extend_cursor(f), f as for move_cursor
extend_cursor(b, f) ==
    [b EXCEPT !.selection.selections =
        [i \in 1..Len(@) |-> [@[i] EXCEPT !.cursor = f[@]]]]

\* Buffer::select_all (the literal names no was_forward; the default is false)
select_all(b) ==
    [b EXCEPT !.selection.selections = <<Sel(0, len_chars(b.text), FALSE)>>]

\* the lines a page key moves by (action/normal.rs)
PageLines == 25

\* the digit keys the model types, and their values
DigitKeys == {"0", "1", "2", "3", "4", "5", "6", "7", "8", "9"}
digit_value(key) ==
    CASE key = "0" -> 0 [] key = "1" -> 1 [] key = "2" -> 2 [] key = "3" -> 3
      [] key = "4" -> 4 [] key = "5" -> 5 [] key = "6" -> 6 [] key = "7" -> 7
      [] key = "8" -> 8 [] key = "9" -> 9

\* the keys bound by action::normal::default_key_mappings
action_keys(st, key) ==
    CASE key = "i" -> set_mode(st, InsertMode(FALSE))
      [] key = "I" -> set_mode(st, InsertMode(TRUE))
      [] key = ":" -> set_mode(st, CommandMode)
      [] key = "a" -> set_mode(with_buffer(st, extend_cursor(st.buffer,
                                   [idx \in cursor_idxs(st.buffer) |->
                                       forward_to_line_end(idx, st.buffer.text)])),
                               InsertMode(FALSE))
      [] key = "C-u" -> with_buffer(st, move_cursor_vertically(st.buffer, 0 - PageLines))
      [] key = "C-d" -> with_buffer(st, move_cursor_vertically(st.buffer, PageLines))
      [] key = "C-U" -> with_buffer(st, extend_cursor_vertically(st.buffer, 0 - PageLines))
      [] key = "C-D" -> with_buffer(st, extend_cursor_vertically(st.buffer, PageLines))
      [] OTHER -> st

\* the 'd' key: the buffer after delete, the removed spans yanked
delete_key(st) ==
    IF delete(st.buffer) = Panic THEN Panic
    ELSE [st EXCEPT !.buffer = delete(st.buffer), !.yanked = delete_yanked(st.buffer)]

\* 'g' after a count: every cursor to line count - 1
goto_line(b, num_prefix) ==
    move_cursor_coord(b, [coord \in cursor_coords(b) |->
                             set_line(coord, saturating_sub(num_prefix, 1), b.text)])

\* Normal::handle_not_digit_not_undo
handle_not_digit_not_undo(st, key, num_prefix) ==
    LET times == IF num_prefix # None THEN num_prefix[1] ELSE 1
        b == st.buffer
    IN  CASE key = "Esc" -> st
          [] key = " " -> with_buffer(st, collapse(b))
          [] key = "C-p" -> set_mode(st, FindMode)
          [] key = "g" -> IF num_prefix # None
                          THEN with_buffer(st, goto_line(b, num_prefix[1]))
                          ELSE set_mode(st, GotoMode)
          [] key \in {"Left", "h"} -> with_buffer(st, move_cursor_backward(b, times))
          [] key \in {"Right", "l"} -> with_buffer(st, move_cursor_forward(b, times))
          [] key \in {"Up", "k"} -> with_buffer(st, move_cursor_vertically(b, 0 - times))
          [] key \in {"Down", "j"} -> with_buffer(st, move_cursor_vertically(b, times))
          [] key = "H" -> with_buffer(st, extend_cursor_backward(b, times))
          [] key = "L" -> with_buffer(st, extend_cursor_forward(b, times))
          [] key = "J" -> with_buffer(st, extend_cursor_vertically(b, times))
          [] key = "K" -> with_buffer(st, extend_cursor_vertically(b, 0 - times))
          [] key = "d" -> delete_key(st)
          [] key = "c" -> set_mode(delete_key(st), InsertMode(FALSE))
          [] key = "o" -> set_mode(with_buffer(st, open(b)), InsertMode(FALSE))
          [] key = "y" -> [st EXCEPT !.yanked = yank(b)]
          [] key = "p" -> with_buffer(st, paste(b, st.yanked))
          [] key = "P" -> with_buffer(st, paste_extend(b, st.yanked))
          [] key = "w" -> with_buffer(st, move_cursor_2(b, forward_words(b)))
          [] key = "W" -> with_buffer(st, extend_cursor_2(b, forward_words(b)))
          [] key = "b" -> IF some_cursor_out_of_text(b) THEN Panic
                          ELSE with_buffer(st, move_cursor_2(b, backward_words(b)))
          [] key = "B" -> IF some_cursor_out_of_text(b) THEN Panic
                          ELSE with_buffer(st, extend_cursor_2(b, backward_words(b)))
          [] key = "x" -> with_buffer(st, move_line(b))
          [] key = "X" -> with_buffer(st, extend_line(b))
          [] key = "%" -> with_buffer(st, select_all(b))
          [] key = "'" -> with_buffer(st, reverse_selections(b))
          [] key = ">" -> with_buffer(st, increase_indent(b, times))
          [] key = "<" -> with_buffer(st, decrease_indent(b, times))
          [] OTHER -> action_keys(st, key)

\* Normal::handle_not_digit
handle_not_digit(st, key, num_prefix) ==
    LET times == IF num_prefix # None THEN num_prefix[1] ELSE 1
    IN  CASE key = "u" -> undo(st, times)
          [] key = "U" -> redo(st, times)
          [] OTHER -> handle_not_digit_not_undo(st, key, num_prefix)

\* what a handler leaves: the state and the mode object it was called on
Handled(st, self) == IF st = Panic THEN Panic ELSE [state |-> st, self |-> self]

\* the end of Normal::handle for a key that is no digit: the count is dropped and
\* the undo point committed
commit_after(handled) ==
    Handled(IF handled = Panic THEN Panic ELSE maybe_commit_undo_point(handled),
            NormalMode(None))

\* Normal::handle with a buffer open
normal_handle_no_commit_before(self, st, key) ==
    IF key \in DigitKeys
    THEN Handled(st, NormalMode(Some((IF self.num_prefix # None THEN self.num_prefix[1] ELSE 0)
                                       * 10 + digit_value(key))))
    ELSE commit_after(handle_not_digit(st, key, self.num_prefix))

normal_handle(self, st, key) ==
    IF key \in DigitKeys
    THEN Handled(st, NormalMode(Some((IF self.num_prefix # None THEN self.num_prefix[1] ELSE 0)
                                       * 10 + digit_value(key))))
    ELSE commit_after(handle_not_digit(maybe_commit_undo_point(st), key, self.num_prefix))

\* Insert::handle
insert_handle(self, st, key) ==
    LET b == st.buffer
        extend == self.extend
    IN  Handled(
          CASE key = "Esc" -> set_mode(st, NormalMode(None))
            [] key = "Enter" -> with_buffer(st, insert_enter(b, extend))
            [] key = "Tab" -> with_buffer(st, insert_tab(b, extend))
            [] key = "Backspace" -> with_buffer(st, backspace(b, extend))
            [] key = "Left" -> with_buffer(st, IF extend THEN extend_cursor_backward(b, 1)
                                               ELSE move_cursor_backward(b, 1))
            [] key = "Right" -> with_buffer(st, IF extend THEN extend_cursor_forward(b, 1)
                                                ELSE move_cursor_forward(b, 1))
            [] key = "Up" -> with_buffer(st, IF extend THEN extend_cursor_vertically(b, 0 - 1)
                                             ELSE move_cursor_vertically(b, 0 - 1))
            [] key = "Down" -> with_buffer(st, IF extend THEN extend_cursor_vertically(b, 1)
                                               ELSE move_cursor_vertically(b, 1))
            [] key \in {"a", Wide} -> with_buffer(st, insert(b, <<key>>, extend))
            [] OTHER -> st,
          self)

\* Goto::handle after its set_mode: the jump
goto_jump(self, st1, key) ==
    LET b == st1.buffer
        text == b.text
        line_end == [coord \in cursor_coords(b) |->
                        set_column(coord, line_len_chars(text, coord.line) - 1, text)]
        line_start == [coord \in cursor_coords(b) |-> set_column(coord, 0, text)]
        first_line == [coord \in cursor_coords(b) |->
                          trim_column_to_buf(set_line(coord, 0, text), text)]
        last_line == [coord \in cursor_coords(b) |->
                         trim_column_to_buf(
                             set_line(coord, saturating_sub(len_lines(text), 1), text), text)]
    IN  Handled(
          CASE key = "l" ->
                 IF \E i \in 1..Len(b.selection.selections) :
                       /\ ~from_idx_panics(b.selection.selections[i].cursor, b.text)
                       /\ line_len_chars(b.text,
                              to_position(b.selection.selections[i].cursor, b.text).line) = 0
                 THEN Panic
                 ELSE with_buffer(st1, move_cursor_coord(b, line_end))
            [] key = "h" -> with_buffer(st1, move_cursor_coord(b, line_start))
            [] key = "k" -> with_buffer(st1, move_cursor_coord(b, first_line))
            [] key = "j" -> with_buffer(st1, move_cursor_coord(b, last_line))
            [] key = "i" -> with_buffer(st1, move_cursor(b, [idx \in cursor_idxs(b) |->
                                       before_first_non_whitespace(idx, text)]))
            [] OTHER -> st1,
          self)

\* Goto::handle: back to Normal first, then the jump
goto_handle(self, st, key) == goto_jump(self, set_mode(st, NormalMode(None)), key)

\* usize subtraction in a build without overflow checks
wrapping_sub(a, b) == (a - b + 2 ^ UsizeBits) % (2 ^ UsizeBits)

\* Goto::handle in a build without overflow checks: line.len_chars() - 1 wraps
\* on a line of no characters where the checked build panics
goto_handle_wrapping(self, st, key) ==
    LET st1 == set_mode(st, NormalMode(None))
        b == st1.buffer
        line_end == [coord \in cursor_coords(b) |->
                        set_column(coord,
                                   wrapping_sub(line_len_chars(b.text, coord.line), 1),
                                   b.text)]
    IN  IF key = "l" THEN Handled(with_buffer(st1, move_cursor_coord(b, line_end)), self)
        ELSE goto_jump(self, st1, key)

\* String::pop
pop(str) == SubSeq(str, 1, Len(str) - 1)

\* the path of the file the editor has open, the one file of its directory
FilePath == <<"a">>

\* State::open_buffer of the path of the buffer that is open: it is found among
\* the buffers and stays the current one
open_buffer(st, path) == [st EXCEPT !.opened = Append(@, path)]

\* Command::handle_command_complete of a command line without blanks: q quits,
\* the empty line does nothing, another word is an unrecognized command
handle_command_complete(self, st) ==
    IF self.cmd = <<"q">> THEN [st EXCEPT !.quit = TRUE] ELSE st

\* Command::handle that completes the command line on Esc as on Enter
command_handle_esc_completes(self, st, key) ==
    CASE key \in {"Esc", "Enter"} ->
           Handled(set_mode(handle_command_complete(self, st), NormalMode(None)), self)
      [] key = "Backspace" -> Handled(st, [self EXCEPT !.cmd = pop(@)])
      [] key \in {"a", "q"} -> Handled(st, [self EXCEPT !.cmd = Append(@, key)])
      [] OTHER -> Handled(st, self)

\* Command::handle
command_handle(self, st, key) ==
    CASE key = "Esc" -> Handled(set_mode(st, NormalMode(None)), self)
      [] key = "Enter" ->
           Handled(set_mode(handle_command_complete(self, st), NormalMode(None)), self)
      [] key = "Backspace" -> Handled(st, [self EXCEPT !.cmd = pop(@)])
      [] key \in {"a", "q"} -> Handled(st, [self EXCEPT !.cmd = Append(@, key)])
      [] OTHER -> Handled(st, self)

RECURSIVE matches_pattern(_, _)
\* the filter of the find handler: the characters of the pattern are found in
\* the path one after the other
matches_pattern(pattern, path) ==
    IF pattern = <<>> THEN TRUE
    ELSE IF path = <<>> THEN FALSE
    ELSE IF Head(pattern) = Head(path) THEN matches_pattern(Tail(pattern), Tail(path))
    ELSE matches_pattern(pattern, Tail(path))

\* the find handler the editor registers, in the directory of the one file
find_handler(pattern) == IF matches_pattern(pattern, FilePath) THEN <<FilePath>> ELSE <<>>

\* Find::update_matches
update_matches(self) == [self EXCEPT !.cur_matches = find_handler(self.match_str)]

\* Find::handle
find_handle(self, st, key) ==
    CASE key = "Esc" ->
           Handled(set_mode(st, NormalMode(None)), [self EXCEPT !.match_str = <<>>])
      [] key = "Backspace" -> Handled(st, update_matches([self EXCEPT !.match_str = pop(@)]))
      [] key = "Enter" ->
           Handled(set_mode(IF self.cur_matches # <<>>
                            THEN open_buffer(st, self.cur_matches[1]) ELSE st,
                            NormalMode(None)),
                   update_matches([self EXCEPT !.match_str = <<>>]))
      [] key \in {"a", "q"} ->
           Handled(st, update_matches([self EXCEPT !.match_str = Append(@, key)]))
      [] OTHER -> Handled(st, self)

\* State::handle_key: the mode is taken out, handles the key, and is put back unless
\* the handler has set another
mode_handle(self, taken, key) ==
    CASE self.name = "normal" -> normal_handle(self, taken, key)
      [] self.name = "insert" -> insert_handle(self, taken, key)
      [] self.name = "goto" -> goto_handle(self, taken, key)
      [] self.name = "command" -> command_handle(self, taken, key)
      [] self.name = "find" -> find_handle(self, taken, key)

put_back(handled) ==
    IF handled = Panic THEN Panic
    ELSE IF handled.state.mode.name = "taken"
    THEN [handled.state EXCEPT !.mode = handled.self]
    ELSE handled.state

handle_key(st, key) ==
    put_back(mode_handle(st.mode, [st EXCEPT !.mode = [name |-> "taken"]], key))

\* the texts of the file the editor opens
FileTexts == { <<"a">>, <<SP, "a", NL, "b">>, <<"a", NL>> }

\* the keys typed in each mode
NormalKeys ==
    {d \in DigitKeys : digit_value(d) <= MaxTimes}
      \cup {"u", "U", "Esc", " ", "C-p", "g", "Left", "h", "Right", "l", "Up", "k", "Down", "j",
            "H", "L", "J", "K", "d", "c", "o", "y", "p", "P", "w", "W", "b", "B", "x", "X",
            "%", "'", ">", "<", "i", "I", ":", "a", "C-u", "C-d", "C-U", "C-D", "z"}
InsertKeys == {"Esc", "Enter", "Tab", "Backspace", "Left", "Right", "Up", "Down", "a", Wide, "F1"}
GotoKeys == {"Esc", "l", "h", "k", "j", "i", "z"}
LineKeys == {"Esc", "Enter", "Backspace", "a", "q", "F1"}

\* State::default with the file opened by State::open_buffer
Init ==
    /\ \E text \in FileTexts : buffer = from_text(text)
    /\ buffer_history = <<>>
    /\ buffer_history_undo_i = None
    /\ mode = NormalMode(None)
    /\ yanked = <<>>
    /\ panicked = FALSE
    /\ NoBufferOpen
    /\ last = [op |-> "init"]
    /\ steps = MaxKeys

\* one key handled, or the panic that ends the process; no key is read once
\* quit is set
KeyHandled(key, handled) ==
    /\ ~panicked
    /\ steps > 0
    /\ handled # Panic =>
          /\ Len(handled.buffer.text) <= MaxLen
          /\ Len(handled.buffer_history) <= MaxHist
          /\ handled.mode.name = "normal" /\ handled.mode.num_prefix # None
                => handled.mode.num_prefix[1] <= MaxTimes
    /\ IF handled = Panic
       THEN /\ panicked' = TRUE
            /\ UNCHANGED <<buffer, buffer_history, buffer_history_undo_i, mode, yanked>>
       ELSE /\ panicked' = FALSE
            /\ buffer' = handled.buffer
            /\ buffer_history' = handled.buffer_history
            /\ buffer_history_undo_i' = handled.buffer_history_undo_i
            /\ mode' = handled.mode
            /\ yanked' = handled.yanked
    /\ last' = [op |-> "key", key |-> key, pre |-> cur_state,
                quit |-> handled # Panic /\ handled.quit,
                opened |-> IF handled = Panic THEN <<>> ELSE handled.opened]
    /\ steps' = IF handled # Panic /\ handled.quit THEN 0 ELSE steps - 1
    /\ UNCHANGED <<buffers, cur_buffer_i, msg>>

HandleKey(key) == KeyHandled(key, handle_key(cur_state, key))

NormalKey(key) == mode.name = "normal" /\ HandleKey(key)
InsertKey(key) == mode.name = "insert" /\ HandleKey(key)
GotoKey(key) == mode.name = "goto" /\ HandleKey(key)
CommandKey(key) == mode.name = "command" /\ HandleKey(key)
FindKey(key) == mode.name = "find" /\ HandleKey(key)
\* the key l of Goto mode in a build without overflow checks
GotoLineEndWrapping ==
    /\ mode.name = "goto"
    /\ KeyHandled("l", put_back(goto_handle_wrapping(
                                    mode, [cur_state EXCEPT !.mode = [name |-> "taken"]], "l")))

Next ==
    \/ \E key \in NormalKeys : NormalKey(key)
    \/ \E key \in InsertKeys : InsertKey(key)
    \/ \E key \in GotoKeys : GotoKey(key)
    \/ GotoLineEndWrapping
    \/ \E key \in LineKeys : CommandKey(key)
    \/ \E key \in LineKeys : FindKey(key)

Spec == Init /\ [][Next]_vars

-----------------------------------------------------------------------------
(* C10: every key of Normal mode that is no digit is wrapped by             *)
(* maybe_commit_undo_point before and after it, so after any Normal-mode    *)
(* key that changes the text one undo(1) restores the text and the          *)
(* selection set exactly as they were immediately before that key.          *)

\* the last key was handled by Normal mode, was no digit, and ended without a panic
NormalKeyHandled ==
    /\ last.op = "key"
    /\ last.pre.mode.name = "normal"
    /\ last.key \notin DigitKeys
    /\ ~panicked

\* the live buffer is the snapshot an undo point holds: a commit would change nothing
Committed ==
    /\ buffer_history # <<>>
    /\ maybe_commit_undo_point(cur_buffer_state) = cur_buffer_state
    /\ LET point == IF buffer_history_undo_i # None
                     THEN buffer_history[buffer_history_undo_i[1] + 1]
                     ELSE buffer_history[Len(buffer_history)]
       IN  point.text = buffer.text /\ point.selection = buffer.selection

\* one undo(1) from the state the key left gives back the buffer from before the key
UndoRestoresBeforeKey ==
    LET undone == undo(cur_buffer_state, 1)
    IN  /\ undone # Panic
        /\ undone.buffer.text = last.pre.buffer.text
        /\ undone.buffer.selection = last.pre.buffer.selection

C10_UndoStepIsOneKey ==
    NormalKeyHandled =>
        /\ Committed
        /\ buffer.text # last.pre.buffer.text => UndoRestoresBeforeKey

\* the same for the keys other than u (undo) and U (redo), which move along the
\* history instead of adding to it
C10_UndoStepIsOneEditingKey ==
    NormalKeyHandled =>
        /\ Committed
        /\ (buffer.text # last.pre.buffer.text /\ last.key \notin {"u", "U"})
              => UndoRestoresBeforeKey

\* a text-changing key pressed mid-history with a selection moved since the undo
C10_Witness ==
    /\ NormalKeyHandled
    /\ last.key \in {"d", "c", "o", "p", "P", ">", "<"}
    /\ buffer.text # last.pre.buffer.text
    /\ last.pre.buffer_history_undo_i # None
    /\ buffer_history_undo_i = None
    /\ undo(cur_buffer_state, 1).buffer = last.pre.buffer

-----------------------------------------------------------------------------
(* Cursor movement over texts of several lines: a buffer with one selection, *)
(* or two carets, inside its text, then up to MaxMoves operations of Buffer. *)

MaxMoves == 3

MoveTexts ==
    { <<"a", "b", NL, NL, "a", "b">>, <<"a", NL, "b">> }

CaretsIn(text) ==
    {<<Sel(c1, c1, TRUE), Sel(c2, c2, TRUE)>> : c1 \in 0..Len(text), c2 \in 0..Len(text)}

InitMove ==
    /\ \E text \in MoveTexts :
         \E selections \in {<<s>> : s \in AllSels(Len(text))} \cup CaretsIn(text) :
            buffer = Buffer(text, selections, FALSE)
    /\ buffer_history = <<>>
    /\ buffer_history_undo_i = None
    /\ mode = NormalMode(None)
    /\ yanked = <<>>
    /\ panicked = FALSE
    /\ NoBufferOpen
    /\ last = NoOp
    /\ steps = MaxMoves

VerticalOps == {"move_cursor_vertically", "extend_cursor_vertically"}

\* the run of vertical moves an operation belongs to: the cursors the run
\* started from, the lines moved by so far, whether the cached column was empty
\* when it started, and whether it started in the first state
run_after(name, arg) ==
    IF name \notin VerticalOps THEN None
    ELSE IF last.op \in VerticalOps
    THEN Some([last.run[1] EXCEPT !.moves = Append(@, arg[1])])
    ELSE Some([start |-> [i \in 1..Len(buffer.selection.selections) |->
                             buffer.selection.selections[i].cursor],
               moves |-> <<arg[1]>>,
               clean |-> buffer.selection.cursor_column = <<>>,
               at_init |-> last = NoOp])

\* one operation on the live buffer
MoveOp(name, arg, result) ==
    /\ ~panicked
    /\ steps > 0
    /\ result # Panic => Len(result.text) <= MaxLen
    /\ IF result = Panic
       THEN buffer' = buffer /\ panicked' = TRUE
       ELSE buffer' = result /\ panicked' = FALSE
    /\ last' = [op |-> name, arg |-> arg, pre |-> buffer, run |-> run_after(name, arg)]
    /\ steps' = steps - 1
    /\ UNCHANGED <<buffer_history, buffer_history_undo_i, mode, yanked,
                 buffers, cur_buffer_i, msg>>

\* each disjunct is one pub fn of Buffer called on the live buffer
NextMove ==
    \/ \E n \in 1..MaxTimes :
          MoveOp("move_cursor_backward", <<n>>, move_cursor_backward(buffer, n))
    \/ \E n \in 1..MaxTimes :
          MoveOp("move_cursor_forward", <<n>>, move_cursor_forward(buffer, n))
    \/ \E n \in 1..MaxTimes :
          MoveOp("extend_cursor_backward", <<n>>, extend_cursor_backward(buffer, n))
    \/ \E n \in 1..MaxTimes :
          MoveOp("extend_cursor_forward", <<n>>, extend_cursor_forward(buffer, n))
    \/ \E n \in ((0 - MaxTimes)..MaxTimes) \ {0} :
          MoveOp("move_cursor_vertically", <<n>>, move_cursor_vertically(buffer, n))
    \/ \E n \in ((0 - MaxTimes)..MaxTimes) \ {0} :
          MoveOp("extend_cursor_vertically", <<n>>, extend_cursor_vertically(buffer, n))
    \/ MoveOp("move_cursor_forward_word", <<>>, move_cursor_forward_word(buffer))
    \/ MoveOp("move_cursor_backward_word", <<>>, move_cursor_backward_word(buffer))
    \/ MoveOp("move_cursor_2", <<"forward_word">>,
              move_cursor_2(buffer, forward_words(buffer)))
    \/ MoveOp("move_cursor_2", <<"backward_word">>,
              IF some_cursor_out_of_text(buffer) THEN Panic
              ELSE move_cursor_2(buffer, backward_words(buffer)))
    \/ MoveOp("extend_cursor_2", <<"forward_word">>,
              extend_cursor_2(buffer, forward_words(buffer)))
    \/ MoveOp("extend_cursor_2", <<"backward_word">>,
              IF some_cursor_out_of_text(buffer) THEN Panic
              ELSE extend_cursor_2(buffer, backward_words(buffer)))
    \/ \E line \in 1..MaxTimes :
          MoveOp("move_cursor_coord", <<"set_line", line>>, goto_line(buffer, line))
    \/ MoveOp("move_cursor_coord", <<"set_column", 0>>,
              move_cursor_coord(buffer, [coord \in cursor_coords(buffer) |->
                                            set_column(coord, 0, buffer.text)]))
    \/ MoveOp("move_line", <<>>, move_line(buffer))
    \/ MoveOp("extend_line", <<>>, extend_line(buffer))
    \/ MoveOp("select_all", <<>>, select_all(buffer))
    \/ MoveOp("collapse", <<>>, collapse(buffer))
    \/ MoveOp("reverse_selections", <<>>, reverse_selections(buffer))
    \/ MoveOp("insert", <<<<"a">>, FALSE>>, insert(buffer, <<"a">>, FALSE))
    \/ MoveOp("delete", <<>>, delete(buffer))
    \/ MoveOp("paste", << << <<"a">> >> >>, paste(buffer, << <<"a">> >>))
    \/ MoveOp("increase_indent", <<1>>, increase_indent(buffer, 1))
    \/ MoveOp("decrease_indent", <<1>>, decrease_indent(buffer, 1))

SpecMove == InitMove /\ [][NextMove]_vars

-----------------------------------------------------------------------------
(* C18: where a move and an extend leave the anchor *)

MoveOps ==
    {"move_cursor_backward", "move_cursor_forward", "move_cursor_vertically",
     "move_cursor_forward_word", "move_cursor_backward_word", "move_cursor_2",
     "move_cursor_coord"}

ExtendOps ==
    {"extend_cursor_backward", "extend_cursor_forward", "extend_cursor_vertically",
     "extend_cursor_2"}

\* an operation of the given set has just run to its end
Ran(ops) == last.op \in ops /\ ~panicked

\* the operation kept the selections in number, place and direction
same_selections_in_turn ==
    /\ Len(buffer.selection.selections) = Len(last.pre.selection.selections)
    /\ \A i \in 1..Len(buffer.selection.selections) :
          buffer.selection.selections[i].was_forward
              = last.pre.selection.selections[i].was_forward

anchors_at_old_cursors ==
    \A i \in 1..Len(buffer.selection.selections) :
        buffer.selection.selections[i].anchor = last.pre.selection.selections[i].cursor

anchors_unchanged ==
    \A i \in 1..Len(buffer.selection.selections) :
        buffer.selection.selections[i].anchor = last.pre.selection.selections[i].anchor

anchors_at_new_cursors ==
    \A i \in 1..Len(buffer.selection.selections) :
        buffer.selection.selections[i].anchor = buffer.selection.selections[i].cursor

\* the anchor is where the word scan from the old cursor starts the word it
\* selects: past the newlines (and, backward, the blanks) next to the old cursor
anchors_at_word_starts ==
    \A i \in 1..Len(buffer.selection.selections) :
        LET cursor == last.pre.selection.selections[i].cursor
            text == last.pre.text
        IN  buffer.selection.selections[i].anchor =
                IF last.op = "move_cursor_forward_word"
                       \/ (last.op = "move_cursor_2" /\ last.arg = <<"forward_word">>)
                THEN forward_while(cursor, [ch \in text_chars(text) |-> is_newline(ch)], text)
                ELSE backward_while(
                         backward_while(cursor,
                                        [ch \in text_chars(text) |-> is_newline(ch)], text),
                         [ch \in text_chars(text) |-> is_non_newline_whitespace(ch)], text)

\* C18: every move_cursor* operation (backward, forward, up, down, forward_word,
\* backward_word, coordinate moves) leaves each selection's anchor at that
\* selection's cursor from before the move; every extend_cursor* operation
\* leaves each selection's anchor unchanged.
C18_MoveResetsAnchor ==
    /\ Ran(MoveOps) => same_selections_in_turn /\ anchors_at_old_cursors
    /\ Ran(ExtendOps) => same_selections_in_turn /\ anchors_unchanged

\* C18, amended: move_cursor_backward, move_cursor_forward and the coordinate
\* moves leave each anchor at the selection's cursor from before the move; a
\* move up or down leaves the anchor on the new cursor (an empty selection at
\* the target); a word move leaves the anchor at the start of the word it
\* selects; every extend_cursor* operation leaves each anchor unchanged.
C18_AnchorAfterMove ==
    /\ Ran({"move_cursor_backward", "move_cursor_forward", "move_cursor_coord"})
          => same_selections_in_turn /\ anchors_at_old_cursors
    /\ Ran({"move_cursor_vertically"}) => same_selections_in_turn /\ anchors_at_new_cursors
    /\ Ran({"move_cursor_forward_word", "move_cursor_backward_word", "move_cursor_2"})
          => same_selections_in_turn /\ anchors_at_word_starts
    /\ Ran(ExtendOps) => same_selections_in_turn /\ anchors_unchanged

\* a move down or up that took a cursor to another place, the anchor with it
C18_Witness ==
    /\ Ran({"move_cursor_vertically"})
    /\ \E i \in 1..Len(buffer.selection.selections) :
          /\ buffer.selection.selections[i].cursor # last.pre.selection.selections[i].cursor
          /\ buffer.selection.selections[i].anchor = buffer.selection.selections[i].cursor
          /\ last.pre.selection.selections[i].anchor # last.pre.selection.selections[i].cursor

-----------------------------------------------------------------------------
(* C19: the desired column over a run of vertical moves *)

\* the last column a cursor can have on a line: before the line's newline, or
\* at the end of the text on its last line
last_valid_column(text, line) ==
    IF line + 1 = len_lines(text) THEN line_len_chars(text, line)
    ELSE line_len_chars(text, line) - 1

\* every cursor is at the column its run started with, or at the last column
\* of its line when the line is shorter
lands_at_desired_column ==
    \A i \in 1..Len(buffer.selection.selections) :
        LET pos == to_position(buffer.selection.selections[i].cursor, buffer.text)
            c == to_position(last.run[1].start[i], buffer.text).column
        IN  pos.column = Min(c, last_valid_column(buffer.text, pos.line))

\* a run of down(n) then up(n), no cursor sent past the last line, has every
\* cursor back where it started
returns_to_start ==
    (/\ Len(last.run[1].moves) = 2
     /\ last.run[1].moves[1] > 0
     /\ last.run[1].moves[2] = 0 - last.run[1].moves[1]
     /\ \A i \in 1..Len(buffer.selection.selections) :
           to_position(last.run[1].start[i], buffer.text).line + last.run[1].moves[1]
               < len_lines(buffer.text))
    => \A i \in 1..Len(buffer.selection.selections) :
           buffer.selection.selections[i].cursor = last.run[1].start[i]

\* C19: in an uninterrupted run of vertical moves (move or extend, up or down)
\* that starts with a cursor at column c, the cursor lands at column
\* min(c, last valid column of the line) on every line it visits, and down(n)
\* followed by up(n) away from the last line returns it to its starting offset.
C19_DesiredColumn ==
    Ran(VerticalOps) => lands_at_desired_column /\ returns_to_start

\* the same for the runs that start with no column cached
C19_DesiredColumnFromEmptyCache ==
    (Ran(VerticalOps) /\ last.run[1].clean) => lands_at_desired_column /\ returns_to_start

\* a run that starts with a column cached by an earlier run
C19_StaleRun ==
    Ran(VerticalOps) /\ ~last.run[1].clean

\* a run that passed a line shorter than its column and is back at the column
C19_Witness ==
    /\ Ran(VerticalOps)
    /\ last.run[1].clean
    /\ Len(last.run[1].moves) = 2
    /\ \E i \in 1..Len(buffer.selection.selections) :
          LET c == to_position(last.run[1].start[i], buffer.text).column
          IN  /\ to_position(last.pre.selection.selections[i].cursor, buffer.text).column < c
              /\ to_position(buffer.selection.selections[i].cursor, buffer.text).column = c

-----------------------------------------------------------------------------
(* C20: what clears the cached column *)

\* the vertical move went by the column each cursor had when it was made
moved_by_own_column ==
    \A i \in 1..Len(buffer.selection.selections) :
        LET cursor == last.pre.selection.selections[i].cursor
            n == last.arg[1]
        IN  buffer.selection.selections[i].cursor =
                IF n >= 0 THEN down_unaligned(cursor, n, None, last.pre.text)
                ELSE up_unaligned(cursor, 0 - n, None, last.pre.text)

\* C20: every Buffer mutation other than a vertical move (horizontal and word
\* moves, line selection, select_all, collapse, reverse, coordinate jumps,
\* insert, delete, paste, indent changes) leaves no column cached, so a vertical
\* move made after such an operation goes by the column the cursor has at that
\* moment, never by a column cached before the operation.
C20_ColumnCleared ==
    /\ (last.op # "init" /\ ~panicked /\ last.op \notin VerticalOps)
          => buffer.selection.cursor_column = <<>>
    /\ (Ran(VerticalOps) /\ Len(last.run[1].moves) = 1 /\ ~last.run[1].at_init)
          => moved_by_own_column

\* the operations that do clear the cached column: insert, delete and the
\* Buffer's own horizontal and word moves
C20_ClearedByEditsAndBufferMoves ==
    Ran({"insert", "delete", "move_cursor_backward", "move_cursor_forward",
         "extend_cursor_backward", "extend_cursor_forward",
         "move_cursor_forward_word", "move_cursor_backward_word"})
        => buffer.selection.cursor_column = <<>>

\* a vertical move that went by a column cached before the operation it follows
C20_StaleColumnUsed ==
    /\ Ran(VerticalOps)
    /\ Len(last.run[1].moves) = 1
    /\ ~last.run[1].at_init
    /\ ~moved_by_own_column

-----------------------------------------------------------------------------
(* Tabs and indentation: a buffer whose lines start with blanks, tabs or     *)
(* brackets, one selection or two carets inside its text, expand-tabs on or  *)
(* off, then up to MaxEdits operations of Buffer.                            *)

MaxEdits == 1
\* longest text an operation of this part may produce
MaxTabLen == 12

TabTexts ==
    { <<>>,
      <<SP, SP>>,
      <<SP, SP, SP, SP>>,
      <<"a", "b", NL, TAB>>,
      <<SP, "a", NL, "b">>,
      <<SP, SP, "a", SP>>,
      <<"(", "a">>,
      <<SP, "(", NL, "a">>,
      <<"(", ")", "a">> }

InitTab ==
    /\ \E text \in TabTexts, expand_tabs \in BOOLEAN :
         \E selections \in {<<s>> : s \in AllSels(Len(text))} \cup CaretsIn(text) :
            buffer = Buffer(text, selections, expand_tabs)
    /\ buffer_history = <<>>
    /\ buffer_history_undo_i = None
    /\ mode = NormalMode(None)
    /\ yanked = <<>>
    /\ panicked = FALSE
    /\ NoBufferOpen
    /\ last = NoOp
    /\ steps = MaxEdits

\* one operation on the live buffer: its result, or the panic that ends the process
TabOp(name, arg, result) ==
    /\ ~panicked
    /\ steps > 0
    /\ result # Panic => Len(result.text) <= MaxTabLen
    /\ IF result = Panic
       THEN buffer' = buffer /\ panicked' = TRUE
       ELSE buffer' = result /\ panicked' = FALSE
    /\ last' = [op |-> name, arg |-> arg, pre |-> buffer]
    /\ steps' = steps - 1
    /\ UNCHANGED <<buffer_history, buffer_history_undo_i, mode, yanked,
                 buffers, cur_buffer_i, msg>>

\* each disjunct is one pub fn of Buffer called on the live buffer
NextTab ==
    \/ \E extend \in BOOLEAN : TabOp("backspace", <<extend>>, backspace(buffer, extend))
    \/ \E extend \in BOOLEAN : TabOp("insert_tab", <<extend>>, insert_tab(buffer, extend))
    \/ \E extend \in BOOLEAN :
          TabOp("insert_enter", <<extend>>, insert_enter(buffer, extend))
    \/ TabOp("open", <<>>, open(buffer))
    \/ \E n \in 1..MaxTimes : TabOp("increase_indent", <<n>>, increase_indent(buffer, n))
    \/ \E n \in 1..MaxTimes : TabOp("decrease_indent", <<n>>, decrease_indent(buffer, n))

SpecTab == InitTab /\ [][NextTab]_vars

-----------------------------------------------------------------------------
(* C21: what one backspace removes *)

\* the cursor of selection i sits at the end of its line's leading whitespace
at_indent_end(b, i) ==
    b.selection.selections[i].cursor
        = before_first_non_whitespace(b.selection.selections[i].cursor, b.text)

\* the visual column of the cursor of selection i
cursor_v_col(b, i) ==
    to_visual_column(to_position(b.selection.selections[i].cursor, b.text), b.text)

\* the cursor of selection i is where a backspace is to take a whole tab stop
at_tab_stop(b, i) ==
    /\ b.expand_tabs
    /\ at_indent_end(b, i)
    /\ cursor_v_col(b, i) > 0
    /\ cursor_v_col(b, i) % tabstop = 0

\* the unit C21 gives the cursor of selection i
backspace_unit(b, i) == IF at_tab_stop(b, i) THEN tabstop ELSE 1

\* the offsets of the units before the cursors
backspace_offsets(b) ==
    UNION {(b.selection.selections[i].cursor - backspace_unit(b, i))
              ..(b.selection.selections[i].cursor - 1) : i \in 1..Len(b.selection.selections)}

\* every cursor has its whole unit before it in the text, and no two units overlap
units_before_cursors(b) ==
    /\ SelectionsInText(b)
    /\ \A i \in 1..Len(b.selection.selections) :
          b.selection.selections[i].cursor >= backspace_unit(b, i)
    /\ \A i, j \in 1..Len(b.selection.selections) :
          i # j => LET ci == b.selection.selections[i].cursor
                       cj == b.selection.selections[j].cursor
                   IN  ci <= cj - backspace_unit(b, j) \/ cj <= ci - backspace_unit(b, i)

\* the backspace removed the units before the cursors and nothing else, a whole
\* tab stop being made of spaces
BackspaceOutcome ==
    /\ ~panicked
    /\ buffer.text = without(last.pre.text, backspace_offsets(last.pre))
    /\ \A i \in 1..Len(last.pre.selection.selections) :
          at_tab_stop(last.pre, i) =>
              \A q \in (last.pre.selection.selections[i].cursor - tabstop)
                           ..(last.pre.selection.selections[i].cursor - 1) :
                  last.pre.text[q + 1] = SP

\* C21: backspace(extend) removes, per cursor, one unit before the cursor:
\* tabstop spaces when expand-tabs is on and the cursor is at the end of its
\* line's leading whitespace at a column that is a multiple of tabstop, and
\* exactly one character in every other case.
C21_BackspaceUnit ==
    (last.op = "backspace" /\ units_before_cursors(last.pre)) => BackspaceOutcome

\* no cursor is at the end of leading whitespace that holds a tab or that ends
\* off a tab stop, with expand-tabs on
no_partial_or_tabbed_indent(b) ==
    \A i \in 1..Len(b.selection.selections) :
        (b.expand_tabs /\ at_indent_end(b, i) /\ cursor_v_col(b, i) > 0) =>
            /\ cursor_v_col(b, i) % tabstop = 0
            /\ cursor_v_col(b, i) = to_position(b.selection.selections[i].cursor, b.text).column

\* the same for cursors that are not at the end of leading whitespace holding
\* a tab or ending off a tab stop
C21_BackspaceUnitOfSpaces ==
    (/\ last.op = "backspace"
     /\ units_before_cursors(last.pre)
     /\ no_partial_or_tabbed_indent(last.pre)) => BackspaceOutcome

\* a backspace that took a whole tab stop of spaces
C21_TabStopRemoved ==
    /\ last.op = "backspace"
    /\ ~panicked
    /\ units_before_cursors(last.pre)
    /\ no_partial_or_tabbed_indent(last.pre)
    /\ \E i \in 1..Len(last.pre.selection.selections) : at_tab_stop(last.pre, i)
    /\ Len(buffer.text) = Len(last.pre.text) - tabstop

-----------------------------------------------------------------------------
(* C22: what insert_tab inserts *)

\* no two selections have their cursors at the same offset
distinct_cursors(selections) ==
    \A i, j \in 1..Len(selections) : i # j => selections[i].cursor # selections[j].cursor

\* the spaces that take the cursor of selection i to the next tab stop
spaces_to_next_tabstop(b, i) ==
    spaces(tabstop - (cursor_v_col(b, i) % tabstop))

\* what C22 has insert_tab put in at the cursor of selection i
tab_text(b, i) == IF b.expand_tabs THEN spaces_to_next_tabstop(b, i) ELSE <<TAB>>

\* the pre-state text with each cursor's tab text put in at the cursor
tabs_inserted ==
    buffer.text =
        pasted_from(last.pre.text,
                    [i \in 1..Len(last.pre.selection.selections) |->
                        last.pre.selection.selections[i].cursor],
                    [i \in 1..Len(last.pre.selection.selections) |-> tab_text(last.pre, i)],
                    0)

\* every cursor is on a tab stop
cursors_on_tab_stops ==
    \A i \in 1..Len(buffer.selection.selections) : cursor_v_col(buffer, i) % tabstop = 0

\* C22: insert_tab with expand-tabs on inserts at each cursor the 1..tabstop
\* spaces from the cursor's visual column to the next multiple of tabstop, so
\* that every cursor ends on a tab stop, also with several cursors on one
\* line; with expand-tabs off it inserts one tab character per cursor.
C22_InsertTab ==
    (/\ last.op = "insert_tab"
     /\ SelectionsInText(last.pre)
     /\ distinct_cursors(last.pre.selection.selections)) =>
        /\ ~panicked
        /\ tabs_inserted
        /\ last.pre.expand_tabs => cursors_on_tab_stops

\* every selection is a caret, or a forward selection that insert_tab extends
carets_or_extended(b, extend) ==
    \A i \in 1..Len(b.selection.selections) :
        \/ b.selection.selections[i].anchor = b.selection.selections[i].cursor
        \/ ~extend
        \/ b.selection.selections[i].anchor < b.selection.selections[i].cursor

\* no two cursors are on the same line
cursors_on_distinct_lines(b) ==
    \A i, j \in 1..Len(b.selection.selections) :
        i # j => to_position(b.selection.selections[i].cursor, b.text).line
                   # to_position(b.selection.selections[j].cursor, b.text).line

\* the same for cursors on lines of their own
C22_InsertTabOnePerLine ==
    (/\ last.op = "insert_tab"
     /\ SelectionsInText(last.pre)
     /\ cursors_on_distinct_lines(last.pre)
     /\ carets_or_extended(last.pre, last.arg[1])) =>
        /\ ~panicked
        /\ tabs_inserted
        /\ last.pre.expand_tabs => cursors_on_tab_stops

\* the text is as C22 says whatever the selections are
C22_InsertTabText ==
    (/\ last.op = "insert_tab"
     /\ SelectionsInText(last.pre)
     /\ distinct_cursors(last.pre.selection.selections)) =>
        ~panicked /\ tabs_inserted

-----------------------------------------------------------------------------
(* C23: what insert_enter and open insert (texts whose only brackets are     *)
(* round ones)                                                               *)

\* the round bracket at offset p is still open at offset idx
still_open(text, p, idx) ==
    \A q \in p..(idx - 1) :
        Cardinality({k \in p..q : text[k + 1] = "("})
            > Cardinality({k \in p..q : text[k + 1] = ")"})

\* the offsets before idx of the round brackets still open at idx
open_brackets_before(idx, text) ==
    {p \in 0..(idx - 1) : text[p + 1] = "(" /\ still_open(text, p, idx)}

\* a bracket opened on the line of idx is still open at idx
bracket_open_on_own_line(idx, text) ==
    \E p \in open_brackets_before(idx, text) : p >= backward_to_line_start(idx, text)

\* the leading whitespace of the line of idx
leading_whitespace(idx, text) ==
    slice(text, backward_to_line_start(idx, text), before_first_non_whitespace(idx, text))

\* what C23 has inserted for a cursor at idx
opened_text(b, idx) ==
    <<NL>> \o (IF bracket_open_on_own_line(idx, b.text) THEN indent_text(b.expand_tabs, 1)
               ELSE <<>>)
           \o leading_whitespace(idx, b.text)

\* where the text goes in: at the cursor for insert_enter, at the end of the
\* cursor's line for open
opened_at(b, op, idx) == IF op = "open" THEN forward_to_line_end(idx, b.text) ELSE idx

\* no two selections have their text put in at the same offset
distinct_openings(b, op) ==
    \A i, j \in 1..Len(b.selection.selections) :
        i # j => opened_at(b, op, b.selection.selections[i].cursor)
                   # opened_at(b, op, b.selection.selections[j].cursor)

\* the text has every cursor's line opened, and every cursor is just past the
\* text put in for it
OpenOutcome ==
    LET pre == last.pre
        sels == pre.selection.selections
        at == [i \in 1..Len(sels) |-> opened_at(pre, last.op, sels[i].cursor)]
        put == [i \in 1..Len(sels) |-> opened_text(pre, sels[i].cursor)]
    IN  /\ ~panicked
        /\ buffer.text = pasted_from(pre.text, at, put, 0)
        /\ \A i \in 1..Len(sels) :
              LET before == {j \in 1..Len(sels) : at[j] < at[i]}
                  shift == IF before = {} THEN 0
                           ELSE Len(put[CHOOSE j \in before : TRUE])
              IN  buffer.selection.selections[i].cursor = at[i] + shift + Len(put[i])

\* C23: insert_enter and open insert, per cursor, a newline with a copy of the
\* current line's leading whitespace, and one more indent unit exactly when a
\* bracket opened on the cursor's own line is still open before the cursor,
\* whether or not any bracket precedes the cursor in the buffer; afterwards
\* the selection's cursor is just past the inserted text.
C23_OpenLine ==
    (/\ last.op \in {"insert_enter", "open"}
     /\ SelectionsInText(last.pre)
     /\ distinct_openings(last.pre, last.op)) => OpenOutcome

\* every cursor has a still-open bracket before it, or its line starts with no
\* whitespace
bracket_before_or_no_indent(b) ==
    \A i \in 1..Len(b.selection.selections) :
        \/ open_brackets_before(b.selection.selections[i].cursor, b.text) # {}
        \/ leading_whitespace(b.selection.selections[i].cursor, b.text) = <<>>

\* the same for cursors with a still-open bracket before them, and for lines
\* that start with no whitespace
C23_OpenLineAfterBracket ==
    (/\ last.op \in {"insert_enter", "open"}
     /\ SelectionsInText(last.pre)
     /\ distinct_openings(last.pre, last.op)
     /\ bracket_before_or_no_indent(last.pre)) => OpenOutcome

\* a line opened with its whitespace copied and an indent unit more
C23_IndentedOpen ==
    /\ last.op \in {"insert_enter", "open"}
    /\ ~panicked
    /\ \E i \in 1..Len(last.pre.selection.selections) :
          /\ bracket_open_on_own_line(last.pre.selection.selections[i].cursor, last.pre.text)
          /\ leading_whitespace(last.pre.selection.selections[i].cursor, last.pre.text) # <<>>

-----------------------------------------------------------------------------
(* C24: what increase_indent inserts *)

\* the lines a selection touches: from the line of its lower end to the line
\* of its last character (the line of the caret, for a caret)
touched_lines(b) ==
    {line \in 0..(len_lines(b.text) - 1) :
        \E i \in 1..Len(b.selection.selections) :
            LET lo == Min(b.selection.selections[i].anchor, b.selection.selections[i].cursor)
                hi == Max(b.selection.selections[i].anchor, b.selection.selections[i].cursor)
            IN  /\ to_position(lo, b.text).line <= line
                /\ line <= to_position(IF lo = hi THEN lo ELSE hi - 1, b.text).line}

\* the offsets of the starts of the touched lines
touched_line_starts(b) == {line_to_char(b.text, line) : line \in touched_lines(b)}

\* n indent units: n * tabstop spaces with expand-tabs on, n tabs with it off
indent_units(expand_tabs, n) ==
    IF expand_tabs THEN spaces(n * tabstop) ELSE copies(<<TAB>>, n)

RECURSIVE indented_from(_, _, _, _)
\* text from offset p on, with the unit put in at every offset of starts
indented_from(text, starts, unit, p) ==
    IF p > Len(text) THEN <<>>
    ELSE (IF p \in starts THEN unit ELSE <<>>)
           \o (IF p < Len(text) THEN <<text[p + 1]>> ELSE <<>>)
           \o indented_from(text, starts, unit, p + 1)

\* C24: increase_indent(n) inserts exactly n indent units (n * tabstop spaces
\* with expand-tabs on, n tabs with it off) at column 0 of every distinct line
\* touched by a selection, once per line, and changes no other line; a
\* selection that ends at column 0 of a line does not touch that line.
C24_IncreaseIndent ==
    (last.op = "increase_indent" /\ SelectionsInText(last.pre)) =>
        /\ ~panicked
        /\ buffer.text = indented_from(last.pre.text, touched_line_starts(last.pre),
                                       indent_units(last.pre.expand_tabs, last.arg[1]), 0)

\* the same with expand-tabs on, or for one indent unit
C24_IncreaseIndentSpacesOrOnce ==
    (/\ last.op = "increase_indent"
     /\ SelectionsInText(last.pre)
     /\ (last.pre.expand_tabs \/ last.arg[1] = 1)) =>
        /\ ~panicked
        /\ buffer.text = indented_from(last.pre.text, touched_line_starts(last.pre),
                                       indent_units(last.pre.expand_tabs, last.arg[1]), 0)

-----------------------------------------------------------------------------
(* C25: what decrease_indent removes *)

\* the offsets of the unit at the start of every touched line that starts with it
unindented_offsets(b, unit) ==
    UNION {p..(p + Len(unit) - 1) :
             p \in {q \in touched_line_starts(b) :
                      /\ q + Len(unit) <= Len(b.text)
                      /\ slice(b.text, q, q + Len(unit)) = unit}}

\* the decrease_indent that led to this state removed the unit from the touched
\* lines that start with it, and nothing else
DecreaseOutcome ==
    /\ ~panicked
    /\ buffer.text =
         without(last.pre.text,
                 unindented_offsets(last.pre,
                                    indent_units(last.pre.expand_tabs, last.arg[1])))

\* a decrease_indent by as much, right after the increase_indent that led to
\* this state, gives back the text from before it
IncreaseUndone ==
    /\ decrease_indent(buffer, last.arg[1]) # Panic
    /\ decrease_indent(buffer, last.arg[1]).text = last.pre.text

\* C25: decrease_indent(n) removes the n-level indent unit from the start of
\* each distinct touched line whose prefix equals that unit, and leaves every
\* touched line whose prefix does not match it, and every other line, as it
\* is; increase_indent(n) followed by decrease_indent(n) restores the text.
C25_DecreaseIndent ==
    /\ (last.op = "decrease_indent" /\ SelectionsInText(last.pre)) => DecreaseOutcome
    /\ (last.op = "increase_indent" /\ SelectionsInText(last.pre) /\ ~panicked)
          => IncreaseUndone

\* the same with expand-tabs on, or for one indent unit; the round trip for
\* every n
C25_DecreaseIndentSpacesOrOnce ==
    /\ (/\ last.op = "decrease_indent"
        /\ SelectionsInText(last.pre)
        /\ (last.pre.expand_tabs \/ last.arg[1] = 1)) => DecreaseOutcome
    /\ (last.op = "increase_indent" /\ SelectionsInText(last.pre) /\ ~panicked)
          => IncreaseUndone

\* a decrease_indent that took an indent unit off a line
C25_UnitRemoved ==
    /\ last.op = "decrease_indent"
    /\ ~panicked
    /\ Len(buffer.text) < Len(last.pre.text)

-----------------------------------------------------------------------------
(* C26: what select_all selects *)

\* the selection set is the one selection from anchor to cursor
only_selection(b, anchor, cursor) ==
    /\ Len(b.selection.selections) = 1
    /\ b.selection.selections[1].anchor = anchor
    /\ b.selection.selections[1].cursor = cursor

\* C26: select_all leaves exactly one selection, over the whole buffer, in the
\* direction the primary selection had before the call: anchor 0 and cursor at
\* the end if it was forward, cursor 0 and anchor at the end if it was backward.
C26_SelectAllKeepsDirection ==
    Ran({"select_all"}) =>
        IF is_forward(last.pre.selection.selections[last.pre.selection.primary + 1])
        THEN only_selection(buffer, 0, len_chars(buffer.text))
        ELSE only_selection(buffer, len_chars(buffer.text), 0)

\* select_all leaves exactly one selection, from anchor 0 to the cursor at the
\* end, whatever the direction of the primary selection was
C26_SelectAllForward ==
    Ran({"select_all"}) =>
        /\ only_selection(buffer, 0, len_chars(buffer.text))
        /\ buffer.text = last.pre.text

-----------------------------------------------------------------------------
(* Forward word motion: a buffer with one selection inside its text, then up *)
(* to MaxWordMoves forward-word operations of Buffer.                        *)

MaxWordMoves == 3

FooBarBaz == <<"f", "o", "o", SP, SP, "b", "a", "r", ".", "b", "a", "z">>

WordTexts ==
    { FooBarBaz, <<"a", NL, NL, SP, "b">>, <<NL, ".", ".", SP, NL>>, <<SP, TAB, NL, "a">>,
      <<"a", "_", ".", TAB, "b">>, <<>> }

InitWord ==
    /\ \E text \in WordTexts :
         \E selections \in {<<s>> : s \in AllSels(Len(text))} \cup CaretsIn(text) :
            buffer = Buffer(text, selections, FALSE)
    /\ buffer_history = <<>>
    /\ buffer_history_undo_i = None
    /\ mode = NormalMode(None)
    /\ yanked = <<>>
    /\ panicked = FALSE
    /\ NoBufferOpen
    /\ last = [op |-> "", arg |-> <<>>, pre |-> buffer, start |-> buffer, moves |-> 0]
    /\ steps = MaxWordMoves

\* one forward-word operation on the live buffer; start is the buffer the
\* moves began from and moves their number so far
WordOp(name, arg, result) ==
    /\ ~panicked
    /\ steps > 0
    /\ buffer' = result
    /\ last' = [op |-> name, arg |-> arg, pre |-> buffer, start |-> last.start,
                moves |-> last.moves + 1]
    /\ steps' = steps - 1
    /\ UNCHANGED <<buffer_history, buffer_history_undo_i, mode, yanked, panicked,
                 buffers, cur_buffer_i, msg>>

\* Buffer::move_cursor_forward_word, and keys w and W of normal mode
NextWord ==
    \/ WordOp("move_cursor_forward_word", <<>>, move_cursor_forward_word(buffer))
    \/ WordOp("move_cursor_2", <<"forward_word">>,
              move_cursor_2(buffer, forward_words(buffer)))
    \/ WordOp("extend_cursor_2", <<"forward_word">>,
              extend_cursor_2(buffer, forward_words(buffer)))

SpecWord == InitWord /\ [][NextWord]_vars

-----------------------------------------------------------------------------
(* C27: where forward_word lands *)

\* every character of text at the offsets from..(to - 1) satisfies f, and the
\* character at offset to, if any, does not
maximal_run(text, from, to, f) ==
    /\ from <= to
    /\ to <= Len(text)
    /\ \A q \in from..(to - 1) : f[text[q + 1]]
    /\ to < Len(text) => ~f[text[to + 1]]

\* <<start, end>> is where the scan of the claim gets from offset p
word_scan(text, p, start, end) ==
    /\ maximal_run(text, p, start, [ch \in text_chars(text) |-> ch = NL])
    /\ \E run \in start..Len(text) :
          /\ maximal_run(text, start, run,
                         [ch \in text_chars(text) |->
                             char_category(ch) = char_category(text[start + 1])])
          /\ maximal_run(text, run, end,
                         [ch \in text_chars(text) |-> ch \in {SP, TAB}])

\* the cursors of the three moves on "foo  bar.baz" from offset 0
FooBarBazCursors == <<5, 8, 9>>

WordMoved == last.moves > 0 /\ ~panicked

\* C27: a forward-word move takes every cursor p to end, and a move that is not
\* an extension takes the anchor to start, where start is p advanced past the
\* newlines before it and end is start advanced over the maximal run of
\* characters of the category of the character at start and then over the
\* blanks other than newline after it; the cursor advances unless it is at the
\* end of the text; on "foo  bar.baz" the moves from a caret at 0 put the
\* cursor at 5 (the b of bar), 8 (the dot) and 9 (the b of baz).
C27_ForwardWord ==
    WordMoved =>
        /\ buffer.text = last.pre.text
        /\ Len(buffer.selection.selections) = Len(last.pre.selection.selections)
        /\ \A i \in 1..Len(buffer.selection.selections) :
              LET was == last.pre.selection.selections[i]
                  now == buffer.selection.selections[i]
              IN  /\ \E start \in was.cursor..Len(buffer.text) :
                        /\ word_scan(buffer.text, was.cursor, start, now.cursor)
                        /\ now.anchor = IF last.op = "extend_cursor_2" THEN was.anchor
                                        ELSE start
                  /\ was.cursor < Len(buffer.text) => was.cursor < now.cursor
                  /\ was.cursor = Len(buffer.text) => now.cursor = was.cursor
        /\ (/\ buffer.text = FooBarBaz
            /\ Len(last.start.selection.selections) = 1
            /\ last.start.selection.selections[1].cursor = 0
            /\ last.moves <= Len(FooBarBazCursors))
              => buffer.selection.selections[1].cursor = FooBarBazCursors[last.moves]

\* the third move on "foo  bar.baz" from a caret at 0, by the buffer's own
\* forward-word move
C27_Witness ==
    /\ WordMoved
    /\ last.op = "move_cursor_forward_word"
    /\ buffer.text = FooBarBaz
    /\ last.start.selection.selections = <<Sel(0, 0, TRUE)>>
    /\ last.moves = 3
    /\ last.pre.selection.selections[1].cursor = 8
    /\ buffer.selection.selections[1].cursor = 9

-----------------------------------------------------------------------------
(* Bracket scans around a selection (idx.rs, buffer.rs) *)

RECURSIVE to_before_indent_closing_char(_, _, _)
\* Idx::to_before_indent_closing_char with its nesting stack: <<>> is None
to_before_indent_closing_char(idx, nesting, text) ==
    IF idx >= len_chars(text) THEN None
    ELSE LET ch == text[idx + 1]
         IN  IF is_indent_closing_char(ch) /\ nesting = <<>> THEN Some(idx)
             ELSE IF /\ is_indent_closing_char(ch)
                     /\ ch = matching_char(nesting[Len(nesting)])
                  THEN to_before_indent_closing_char(
                           forward(idx, text), SubSeq(nesting, 1, Len(nesting) - 1), text)
             ELSE to_before_indent_closing_char(
                      forward(idx, text),
                      IF is_indent_opening_char(ch) THEN Append(nesting, ch) ELSE nesting,
                      text)

\* the queue has an entry of the character: q.iter().any(|(ch, _)| *ch == matching)
any_matching(q, matching) == \E i \in 1..Len(q) : q[i][1] = matching

RECURSIVE pop_to_matching(_, _)
\* the loop of pop_front up to the first entry of the matching character:
\* the queue left and the position of that entry, None or Some(idx)
pop_to_matching(q, matching) ==
    IF Head(q)[1] = matching THEN [q |-> Tail(q), idx |-> Head(q)[2]]
    ELSE pop_to_matching(Tail(q), matching)

RECURSIVE find_surounding_area_opt(_, _, _, _, _, _)
\* the loop of Idx::find_surounding_area_opt from the positions left and right,
\* with its two queues of <<character, position>> and pushed_something:
\* None, or Some(<<left, right>>)
find_surounding_area_opt(left, right, left_q, right_q, pushed_something, text) ==
    IF pushed_something /\ left_q = <<>> /\ right_q = <<>>
    THEN Some(<<forward(left, text), backward(right)>>)
    ELSE IF left = 0 /\ right = len_chars(text) THEN None
    ELSE IF left # 0 /\ (Len(left_q) <= Len(right_q) \/ right = len_chars(text))
    THEN LET ch == text[left]
             l == backward(left)
         IN  IF is_indent_opening_char(ch)
             THEN IF any_matching(right_q, matching_char(ch))
                  THEN LET popped == pop_to_matching(right_q, matching_char(ch))
                       IN  IF popped.idx # None
                           THEN Some(<<forward(l, text), backward(popped.idx[1])>>)
                           ELSE find_surounding_area_opt(l, right, left_q, popped.q,
                                                         pushed_something, text)
                  ELSE find_surounding_area_opt(
                           l, right,
                           IF is_indent_closing_char(ch)
                           THEN <<<<ch, Some(l)>>>> \o left_q
                           ELSE Append(left_q, <<ch, Some(l)>>),
                           right_q, TRUE, text)
             ELSE IF is_indent_closing_char(ch)
             THEN find_surounding_area_opt(l, right, left_q, <<<<ch, None>>>> \o right_q,
                                           pushed_something, text)
             ELSE find_surounding_area_opt(l, right, left_q, right_q, pushed_something, text)
    ELSE LET ch == text[right + 1]
             r == forward(right, text)
         IN  IF is_indent_closing_char(ch)
             THEN IF any_matching(left_q, matching_char(ch))
                  THEN LET popped == pop_to_matching(left_q, matching_char(ch))
                       IN  IF popped.idx # None
                           THEN Some(<<forward(popped.idx[1], text), backward(r)>>)
                           ELSE find_surounding_area_opt(left, r, popped.q, right_q,
                                                         pushed_something, text)
                  ELSE find_surounding_area_opt(
                           left, r, left_q,
                           IF is_indent_opening_char(ch)
                           THEN <<<<ch, Some(r)>>>> \o right_q
                           ELSE Append(right_q, <<ch, Some(r)>>),
                           TRUE, text)
             ELSE IF is_indent_opening_char(ch)
             THEN find_surounding_area_opt(left, r, <<<<ch, None>>>> \o left_q, right_q,
                                           pushed_something, text)
             ELSE find_surounding_area_opt(left, r, left_q, right_q, pushed_something, text)

\* Idx::find_surounding_area from the positions left and right: <<left, right>>
find_surounding_area(left, right, text) ==
    LET area == find_surounding_area_opt(left, right, <<>>, <<>>, FALSE, text)
    IN  IF area # None THEN area[1] ELSE <<0, len_chars(text)>>

\* Selection::len: the number of characters between anchor and cursor
selection_len(sel) == Max(sel.anchor, sel.cursor) - Min(sel.anchor, sel.cursor)

\* Selection::new_from_normalized: the forward selection from left to right
new_from_normalized(left, right) == Sel(left, right, TRUE)

\* Selection::unify_direction_of: other, turned to the direction of sel
unify_direction_of(sel, other) ==
    IF is_forward(sel) = is_forward(other) THEN other ELSE reversed(other)

\* Buffer::select_inner_surrounding that keeps the area it finds as it is
select_inner_surrounding_as_found(b) ==
    LET text == b.text
        around(sel) ==
            LET area == IF selection_len(sel) <= 1
                        THEN find_surounding_area(sel.cursor, sel.cursor, text)
                        ELSE IF is_forward(sel)
                        THEN find_surounding_area(sel.anchor, sel.cursor, text)
                        ELSE find_surounding_area(sel.cursor, sel.anchor, text)
            IN  unify_direction_of(sel, new_from_normalized(area[1], area[2]))
    IN  [clear_cursor_column(b) EXCEPT !.selection.selections =
            [i \in 1..Len(@) |-> around(@[i])]]

\* Buffer::select_inner_surrounding
select_inner_surrounding(b) ==
    LET text == b.text
        around(sel) ==
            LET area == IF selection_len(sel) <= 1
                        THEN find_surounding_area(sel.cursor, sel.cursor, text)
                        ELSE IF is_forward(sel)
                        THEN find_surounding_area(sel.anchor, sel.cursor, text)
                        ELSE find_surounding_area(sel.cursor, sel.anchor, text)
                same == area = sorted_pair(sel) \/ area[1] = area[2]
                left == IF same THEN backward(area[1]) ELSE area[1]
                right == IF same THEN forward(area[2], text) ELSE area[2]
            IN  unify_direction_of(sel, new_from_normalized(left, right))
    IN  [clear_cursor_column(b) EXCEPT !.selection.selections =
            [i \in 1..Len(@) |-> around(@[i])]]

\* Buffer::expand_inner_surrounding that keeps the area it finds as it is
expand_inner_surrounding_as_found(b) ==
    LET text == b.text
        or_begining(idx) == IF idx # None THEN idx[1] ELSE 0
        or_end(idx) == IF idx # None THEN idx[1] ELSE len_chars(text)
        around(sel) ==
            LET start == sorted_pair(sel)
                left == or_begining(to_after_indent_opening_char(start[1], <<>>, text))
                right == or_end(to_before_indent_closing_char(start[2], <<>>, text))
                counter_left == or_begining(to_after_indent_opening_char(right, <<>>, text))
                counter_right == or_end(to_before_indent_closing_char(left, <<>>, text))
            IN  IF is_forward(sel)
                THEN [sel EXCEPT !.anchor = Min(left, counter_left),
                                 !.cursor = Max(right, counter_right)]
                ELSE [sel EXCEPT !.cursor = Min(left, counter_left),
                                 !.anchor = Max(right, counter_right)]
    IN  [clear_cursor_column(b) EXCEPT !.selection.selections =
            [i \in 1..Len(@) |-> around(@[i])]]

\* Buffer::expand_inner_surrounding
expand_inner_surrounding(b) ==
    LET text == b.text
        or_begining(idx) == IF idx # None THEN idx[1] ELSE 0
        or_end(idx) == IF idx # None THEN idx[1] ELSE len_chars(text)
        around(sel) ==
            LET start == sorted_pair(sel)
                left == or_begining(to_after_indent_opening_char(start[1], <<>>, text))
                right == or_end(to_before_indent_closing_char(start[2], <<>>, text))
                counter_left == or_begining(to_after_indent_opening_char(right, <<>>, text))
                counter_right == or_end(to_before_indent_closing_char(left, <<>>, text))
                area == <<Min(left, counter_left), Max(right, counter_right)>>
                new_left == IF area = start THEN backward(area[1]) ELSE area[1]
                new_right == IF area = start THEN forward(area[2], text) ELSE area[2]
            IN  IF is_forward(sel)
                THEN [sel EXCEPT !.anchor = new_left, !.cursor = new_right]
                ELSE [sel EXCEPT !.cursor = new_left, !.anchor = new_right]
    IN  [clear_cursor_column(b) EXCEPT !.selection.selections =
            [i \in 1..Len(@) |-> around(@[i])]]

-----------------------------------------------------------------------------
(* Selecting what surrounds a selection: a buffer with one selection, or two  *)
(* carets, inside its text, then up to MaxSurrounds operations of Buffer.     *)

MaxSurrounds == 3

NestedCall == <<"f", "(", "a", ",", SP, "(", "b", ")", ",", SP, "c", ")">>

SurroundTexts ==
    { NestedCall, <<"(", "a", ")">>, <<"a", "b">>, <<"(", ")">>, <<"[", "(", "a", ")">>,
      <<"(", "[", "a", ")">>, <<"a", ")", "(", "b">>, <<"\"", "a", "\"", "b">>,
      <<"a", "(", "b", ")", "c">>, <<>> }

InitSurround ==
    /\ \E text \in SurroundTexts :
         \E selections \in {<<s>> : s \in AllSels(Len(text))} \cup CaretsIn(text) :
            buffer = Buffer(text, selections, FALSE)
    /\ buffer_history = <<>>
    /\ buffer_history_undo_i = None
    /\ mode = NormalMode(None)
    /\ yanked = <<>>
    /\ panicked = FALSE
    /\ NoBufferOpen
    /\ last = [op |-> "", arg |-> <<>>, pre |-> buffer, start |-> buffer, ops |-> <<>>]
    /\ steps = MaxSurrounds

\* one operation on the live buffer; start is the buffer the operations began
\* from and ops their names so far
SurroundOp(name, result) ==
    /\ ~panicked
    /\ steps > 0
    /\ buffer' = result
    /\ last' = [op |-> name, arg |-> <<>>, pre |-> buffer, start |-> last.start,
                ops |-> Append(last.ops, name)]
    /\ steps' = steps - 1
    /\ UNCHANGED <<buffer_history, buffer_history_undo_i, mode, yanked, panicked,
                 buffers, cur_buffer_i, msg>>

NextSurround ==
    \/ SurroundOp("select_inner_surrounding", select_inner_surrounding(buffer))
    \/ SurroundOp("expand_inner_surrounding", expand_inner_surrounding(buffer))

SpecSurround == InitSurround /\ [][NextSurround]_vars

-----------------------------------------------------------------------------
(* C28: what select_inner_surrounding selects *)

\* the text the i-th selection of the buffer covers
selected_text(b, i) ==
    slice(b.text, sorted_pair(b.selection.selections[i])[1],
          sorted_pair(b.selection.selections[i])[2])

\* the operations so far were n calls of select_inner_surrounding on
\* "f(a, (b), c)", from one caret next to the b
SelectedAroundB(n) ==
    /\ buffer.text = NestedCall
    /\ \E caret \in {6, 7}, was_forward \in BOOLEAN :
          last.start.selection.selections = <<Sel(caret, caret, was_forward)>>
    /\ last.ops = [k \in 1..n |-> "select_inner_surrounding"]

\* the range a selection stands for: a selection of at most one character is
\* the caret at its cursor
caret_or_range(sel) ==
    IF selection_len(sel) <= 1 THEN <<sel.cursor, sel.cursor>> ELSE sorted_pair(sel)

\* an opening bracket before the selection has its closing bracket after it
enclosing_pair_exists(b, i) ==
    LET range == caret_or_range(b.selection.selections[i])
    IN  \E o \in 1..range[1], c \in (range[2] + 1)..Len(b.text) :
           /\ is_indent_opening_char(b.text[o])
           /\ b.text[c] = matching_char(b.text[o])
           /\ is_indent_closing_char(b.text[c])

whole_buffer_selected(b, i) == sorted_pair(b.selection.selections[i]) = <<0, Len(b.text)>>

\* select_inner_surrounding of a selection with no enclosing pair selects the
\* whole buffer
WholeBufferWithoutPair ==
    (last.op = "select_inner_surrounding" /\ ~panicked) =>
        \A i \in 1..Len(buffer.selection.selections) :
            ~enclosing_pair_exists(last.pre, i) => whole_buffer_selected(buffer, i)

C28_NoPairWitness ==
    /\ last.op = "select_inner_surrounding"
    /\ buffer.text = <<"a", ")", "(", "b">>
    /\ ~enclosing_pair_exists(last.pre, 1)
    /\ ~whole_buffer_selected(last.pre, 1)
    /\ whole_buffer_selected(buffer, 1)

-----------------------------------------------------------------------------
(* C29: the surrounding operations always widen the selection *)

SurroundOps == {"select_inner_surrounding", "expand_inner_surrounding"}

\* the range from..to lies inside the range of the pair
contains(pair, from, to) == pair[1] <= from /\ to <= pair[2]

C29_WholeBufferKept ==
    /\ last.op = "expand_inner_surrounding"
    /\ Len(buffer.text) > 0
    /\ sorted_pair(last.pre.selection.selections[1]) = <<0, Len(buffer.text)>>
    /\ buffer.selection.selections = last.pre.selection.selections

-----------------------------------------------------------------------------
(* C30: Esc in a transient mode *)

TransientModes == {"command", "find", "goto", "insert"}

EscInTransientMode ==
    /\ last.op = "key"
    /\ last.key = "Esc"
    /\ last.pre.mode.name \in TransientModes

\* C30: Esc in Command, Find, Goto or Insert mode always ends in Normal mode
\* with no pending count, runs no command and opens no file, whatever command
\* line or query was typed, and leaves the buffer's text and selections as they
\* were.
C30_EscBackToNormal ==
    EscInTransientMode =>
        /\ ~panicked
        /\ mode = NormalMode(None)
        /\ ~last.quit
        /\ last.opened = <<>>
        /\ buffer.text = last.pre.buffer.text
        /\ buffer.selection = last.pre.buffer.selection

\* Esc on the command line q, which Enter would have run
C30_Witness ==
    /\ EscInTransientMode
    /\ last.pre.mode.name = "command"
    /\ last.pre.mode.cmd = <<"q">>
    /\ mode = NormalMode(None)

\* Esc on a find query that matches the file, which Enter would have opened
C30_FindWitness ==
    /\ EscInTransientMode
    /\ last.pre.mode.name = "find"
    /\ last.pre.mode.match_str = <<"a">>
    /\ last.pre.mode.cur_matches = <<FilePath>>
    /\ mode = NormalMode(None)

\* Enter on the command line q quits, and Enter on a matching query opens
C30_EnterRuns ==
    /\ last.op = "key"
    /\ last.key = "Enter"
    /\ last.quit \/ last.opened # <<>>

-----------------------------------------------------------------------------
(* C31: Goto mode handles one key *)

KeyInGotoMode == last.op = "key" /\ last.pre.mode.name = "goto"

GotoJumpKeys == {"l", "h", "k", "j", "i"}

\* C31: after one key handled in Goto mode, whatever the key, the mode is
\* Normal; a key that is no jump, Esc included, changes neither the text nor
\* the selections.
C31_GotoOneShot ==
    KeyInGotoMode =>
        /\ ~panicked
        /\ mode.name = "normal"
        /\ last.key \notin GotoJumpKeys =>
              /\ buffer.text = last.pre.buffer.text
              /\ buffer.selection = last.pre.buffer.selection

\* some cursor of the buffer is on a line of no characters
cursor_on_empty_line(b) ==
    \E i \in 1..Len(b.selection.selections) :
        /\ ~from_idx_panics(b.selection.selections[i].cursor, b.text)
        /\ line_len_chars(b.text, to_position(b.selection.selections[i].cursor, b.text).line) = 0

\* after one key handled in Goto mode the mode is Normal and no jump changes
\* the text, unless the key is l with a cursor on a line of no characters or a
\* cursor is past the end of the text
C31_GotoOneShotOffEmptyLines ==
    KeyInGotoMode =>
        /\ panicked =>
              \/ last.key = "l" /\ cursor_on_empty_line(last.pre.buffer)
              \/ last.key \in GotoJumpKeys /\ some_cursor_out_of_text(last.pre.buffer)
        /\ ~panicked =>
              /\ mode = NormalMode(None)
              /\ buffer.text = last.pre.buffer.text
              /\ last.key \notin GotoJumpKeys =>
                    buffer.selection = last.pre.buffer.selection

\* the key l in Goto mode on the empty buffer ends the process
C31_GotoPanics ==
    /\ KeyInGotoMode
    /\ last.key = "l"
    /\ last.pre.buffer.text = <<>>
    /\ panicked

-----------------------------------------------------------------------------
(* C35: the jump to the end of a line of no characters *)

GotoLineEnd == KeyInGotoMode /\ last.key = "l"

\* every cursor that was on a line of no characters is where it was
cursors_kept_on_empty_lines ==
    /\ Len(buffer.selection.selections) = Len(last.pre.buffer.selection.selections)
    /\ \A i \in 1..Len(buffer.selection.selections) :
          LET cursor == last.pre.buffer.selection.selections[i].cursor
              text == last.pre.buffer.text
          IN  (/\ ~from_idx_panics(cursor, text)
               /\ line_len_chars(text, to_position(cursor, text).line) = 0)
                 => buffer.selection.selections[i].cursor = cursor

\* C35: the key l of Goto mode with a cursor on a line of no characters (the
\* empty buffer, the empty last line after a newline) does not underflow: the
\* key is handled and the cursor stays at the line's only column.
C35_LineEndSaturates ==
    (GotoLineEnd /\ cursor_on_empty_line(last.pre.buffer)) =>
        /\ ~panicked
        /\ cursors_kept_on_empty_lines

\* when the key l of Goto mode is handled without a panic, the cursors on
\* lines of no characters stay where they are and the text is unchanged
C35_LineEndKeptWhenHandled ==
    (GotoLineEnd /\ ~panicked) =>
        /\ cursors_kept_on_empty_lines
        /\ buffer.text = last.pre.buffer.text

\* the checked build panics on the empty last line after a newline
C35_PanicOnEmptyLastLine ==
    /\ GotoLineEnd
    /\ last.pre.buffer.text = <<"a", NL>>
    /\ last.pre.buffer.selection.selections[1].cursor = 2
    /\ panicked

\* the build without overflow checks keeps the cursor on the empty last line
C35_WrappedOnEmptyLastLine ==
    /\ GotoLineEnd
    /\ last.pre.buffer.text = <<"a", NL>>
    /\ last.pre.buffer.selection.selections[1].cursor = 2
    /\ ~panicked
    /\ buffer.selection.selections[1].cursor = 2

-----------------------------------------------------------------------------
(* C34: backspace with a cursor at the start of the text *)

BackspaceCalled == last.op = "backspace"

cursor_at_start(b) ==
    \E i \in 1..Len(b.selection.selections) : b.selection.selections[i].cursor = 0

all_cursors_at_start(b) ==
    \A i \in 1..Len(b.selection.selections) : b.selection.selections[i].cursor = 0

\* the call ended without a panic, removed nothing when every cursor was at
\* offset 0, and left each cursor at 0
kept_at_start ==
    /\ ~panicked
    /\ all_cursors_at_start(last.pre) =>
          /\ buffer.text = last.pre.text
          /\ all_cursors_at_start(buffer)

\* C34: backspace with a cursor at offset 0, on the empty buffer too, with
\* expand-tabs on and off, is a safe no-op for that cursor: nothing underflows,
\* and the text and the cursor are as they were.
C34_BackspaceAtStart ==
    (BackspaceCalled /\ cursor_at_start(last.pre)) => kept_at_start

\* with expand-tabs on, backspace with a cursor at offset 0 is a safe no-op
\* for that cursor
C34_BackspaceAtStartExpandTabs ==
    (BackspaceCalled /\ cursor_at_start(last.pre) /\ last.pre.expand_tabs) => kept_at_start

\* with expand-tabs off, backspace with a cursor at offset 0 always panics
C34_BackspaceOnePanicsAtStart ==
    (BackspaceCalled /\ cursor_at_start(last.pre) /\ ~last.pre.expand_tabs) => panicked

\* backspace on the empty buffer with expand-tabs off
C34_PanicOnEmptyBuffer ==
    /\ BackspaceCalled
    /\ last.pre.text = <<>>
    /\ ~last.pre.expand_tabs
    /\ panicked

\* backspace on the empty buffer with expand-tabs on
C34_NoOpOnEmptyBuffer ==
    /\ BackspaceCalled
    /\ last.pre.text = <<>>
    /\ last.pre.expand_tabs
    /\ ~panicked
    /\ buffer.text = <<>>

-----------------------------------------------------------------------------
(* C40: a backspace of several characters stays in the leading whitespace *)

\* a backspace of the one selection of a buffer with expand-tabs on took more
\* than one character
SeveralRemoved ==
    /\ BackspaceCalled
    /\ ~panicked
    /\ last.pre.expand_tabs
    /\ Len(last.pre.selection.selections) = 1
    /\ SelectionsInText(last.pre)
    /\ Len(buffer.text) + 1 < Len(last.pre.text)

\* the characters taken are the ones before the cursor, all of them blanks of
\* the leading whitespace of the cursor's line
taken_from_own_indent ==
    LET cursor == last.pre.selection.selections[1].cursor
        text == last.pre.text
        start == cursor - (Len(text) - Len(buffer.text))
    IN  /\ start >= backward_to_line_start(cursor, text)
        /\ cursor <= before_first_non_whitespace(cursor, text)
        /\ \A q \in start..(cursor - 1) : text[q + 1] \in {SP, TAB}
        /\ buffer.text = without(text, start..(cursor - 1))

\* C40: with expand-tabs on, a backspace that removes more than one character
\* removes only characters of the leading whitespace of the cursor's line,
\* never the newline before it or a character of an earlier line, tabs in
\* that whitespace or not.
C40_BackspaceInOwnIndent ==
    SeveralRemoved => taken_from_own_indent

\* the same when the whitespace before the cursor holds no tab
C40_BackspaceInIndentOfSpaces ==
    (/\ SeveralRemoved
     /\ cursor_v_col(last.pre, 1)
           = to_position(last.pre.selection.selections[1].cursor, last.pre.text).column)
       => taken_from_own_indent

\* a backspace after a tab that took the newline and the line before it
C40_EarlierLineRemoved ==
    /\ SeveralRemoved
    /\ last.pre.text = <<"a", "b", NL, TAB>>
    /\ last.pre.selection.selections[1].cursor = 4
    /\ buffer.text = <<>>

\* a backspace that took a tab stop of spaces
C40_SpacesRemoved ==
    /\ SeveralRemoved
    /\ last.pre.text = <<SP, SP, SP, SP>>
    /\ last.pre.selection.selections[1].cursor = 4
    /\ buffer.text = <<>>

-----------------------------------------------------------------------------
(* C36: undo(1) followed by redo(1) *)

\* redo(1) was called right after undo(1)
UndoneThenRedone ==
    /\ ~panicked
    /\ last.op = "redo"
    /\ last.arg = 1
    /\ last.undone # None
    /\ last.undone[1].arg = 1

\* the BufferState undo(1) was called in
before_undo == last.undone[1].pre

\* the live buffer is the one undo(1) was called on
live_buffer_restored == buffer = before_undo.buffer

\* the live buffer holds an edit that no history entry holds yet
uncommitted_edit(bs) ==
    /\ bs.buffer_history_undo_i = None
    /\ bs.buffer_history # <<>>
    /\ bs.buffer_history[Len(bs.buffer_history)].text # bs.buffer.text

\* a state undo can step back from and redo return to: live, or mid-history
\* with the live buffer equal to the entry at the undo cursor and either an
\* entry before it or no entry after it
steps_back_and_forth(bs) ==
    \/ bs.buffer_history_undo_i = None
    \/ /\ bs.buffer_history[bs.buffer_history_undo_i[1] + 1] = bs.buffer
       /\ \/ bs.buffer_history_undo_i[1] >= 1
          \/ Len(bs.buffer_history) = 1

\* C36: from any reachable BufferState, undo(1) immediately followed by
\* redo(1) restores the text and the selection set of the live buffer as
\* they were before the undo, an uncommitted edit included.
C36_UndoRedoRestores ==
    UndoneThenRedone => live_buffer_restored

\* C36 for the states undo can step back from and redo return to
C36_UndoRedoRestoresFromNewest ==
    (UndoneThenRedone /\ steps_back_and_forth(before_undo)) => live_buffer_restored

\* undo(1) took an uncommitted edit away and redo(1) brought it back
C36_Witness ==
    /\ UndoneThenRedone
    /\ uncommitted_edit(before_undo)
    /\ last.pre.buffer # before_undo.buffer
    /\ live_buffer_restored

\* at the oldest entry undo(1) stays and redo(1) goes on to the next entry
C36_OldestEntryLeft ==
    /\ UndoneThenRedone
    /\ before_undo.buffer_history_undo_i = Some(0)
    /\ before_undo.buffer = before_undo.buffer_history[1]
    /\ last.pre.buffer = before_undo.buffer
    /\ ~live_buffer_restored

\* mid-history undo(1) drops an edit that was not committed
C36_MidHistoryEditDropped ==
    /\ UndoneThenRedone
    /\ before_undo.buffer_history_undo_i # None
    /\ before_undo.buffer_history_undo_i[1] >= 1
    /\ before_undo.buffer.text
          # before_undo.buffer_history[before_undo.buffer_history_undo_i[1] + 1].text
    /\ ~live_buffer_restored

-----------------------------------------------------------------------------
(* C37: neighbouring history entries differ in text *)

\* C37: in every reachable BufferState no two consecutive history entries
\* have equal text, whatever edits, selection changes, commits, undos, redos
\* and forks produced the history.
C37_NeighboursDiffer ==
    \A k \in 1..(Len(buffer_history) - 1) :
        buffer_history[k].text # buffer_history[k + 1].text

\* a fork has just replayed the entry at the undo cursor onto a history that
\* already held its text: equal texts, but not next to each other
C37_Witness ==
    /\ last.op = "commit"
    /\ is_fork(last.pre)
    /\ Len(buffer_history) > Len(last.pre.buffer_history) + 1
    /\ \E k \in 1..(Len(buffer_history) - 2) :
           buffer_history[k].text = buffer_history[Len(buffer_history) - 1].text
    /\ C37_NeighboursDiffer

-----------------------------------------------------------------------------
(* C38: the history is append-only *)

\* a call on the BufferState has returned
UndoCalled ==
    /\ ~panicked
    /\ last.op \in {"insert", "delete", "move", "commit", "undo", "redo"}

\* entry k of the history before the call may have got another selection:
\* the last entry when the state was live or the call forked, the entry at
\* the undo cursor when it was mid-history
selection_may_change(bs, k) ==
    \/ /\ k = Len(bs.buffer_history)
       /\ bs.buffer_history_undo_i = None \/ is_fork(bs)
    \/ /\ bs.buffer_history_undo_i # None
       /\ ~is_fork(bs)
       /\ k = bs.buffer_history_undo_i[1] + 1

\* C38: maybe_commit_undo_point, undo and redo never remove a history entry
\* and never change the text of one; the only change in place is to the
\* selection of the last entry (live, or in a fork replay) or of the entry at
\* the undo cursor (mid-history); edits of the live buffer between commits
\* change no entry.
C38_AppendOnly ==
    UndoCalled =>
        /\ Len(buffer_history) >= Len(last.pre.buffer_history)
        /\ \A k \in 1..Len(last.pre.buffer_history) :
              /\ buffer_history[k].text = last.pre.buffer_history[k].text
              /\ buffer_history[k] # last.pre.buffer_history[k]
                    => /\ last.op \in {"commit", "undo"}
                       /\ selection_may_change(last.pre, k)
        /\ last.op \in {"insert", "delete", "move", "redo"}
              => buffer_history = last.pre.buffer_history

\* a commit mid-history gave the entry at the undo cursor, not the last one,
\* the selection of the live buffer
C38_Witness ==
    /\ UndoCalled
    /\ last.op = "commit"
    /\ last.pre.buffer_history_undo_i # None
    /\ last.pre.buffer_history_undo_i[1] + 1 < Len(buffer_history)
    /\ buffer_history[last.pre.buffer_history_undo_i[1] + 1]
          # last.pre.buffer_history[last.pre.buffer_history_undo_i[1] + 1]
    /\ C38_AppendOnly

\* a fork replay gave the last entry another selection and appended the edit
C38_ForkWitness ==
    /\ UndoCalled
    /\ last.op = "commit"
    /\ is_fork(last.pre)
    /\ Len(buffer_history) = Len(last.pre.buffer_history) + 1
    /\ buffer_history[Len(last.pre.buffer_history)]
          # last.pre.buffer_history[Len(last.pre.buffer_history)]

-----------------------------------------------------------------------------
(* C39: two successive inserts keep the order of typing *)

\* insert(s2, extend) was called right after insert(s1, extend), on a buffer
\* whose selections were inside the text, each with a cursor of its own
TypedTwice ==
    /\ ~panicked
    /\ last.op = "insert"
    /\ last.inserted # None
    /\ last.inserted[1].arg[2] = last.arg[2]
    /\ SelectionsInText(last.inserted[1].pre)
    /\ \A i, j \in 1..Len(last.inserted[1].pre.selection.selections) :
          i # j => last.inserted[1].pre.selection.selections[i].cursor
                      # last.inserted[1].pre.selection.selections[j].cursor

\* the buffer the first insert was called on
before_typing == last.inserted[1].pre

RECURSIVE typed_at_each(_, _, _)
\* the text with s put in at every one of the offsets
typed_at_each(text, offsets, s) ==
    IF offsets = {} THEN text
    ELSE LET m == CHOOSE q \in offsets : \A r \in offsets : r <= q
         IN  typed_at_each(rope_insert(text, m, s), offsets \ {m}, s)

\* the text holds s1 followed at once by s2 at the offset of every cursor
\* there was before the first insert
typed_in_order ==
    buffer.text =
        typed_at_each(before_typing.text,
                      {before_typing.selection.selections[i].cursor :
                          i \in 1..Len(before_typing.selection.selections)},
                      last.inserted[1].arg[1] \o last.arg[1])

\* C39: insert(s1, extend) followed at once by insert(s2, extend) leaves s1
\* immediately followed by s2 in the text at each selection's original
\* cursor offset, for extend false and true and for forward and backward
\* selections.
C39_TypingOrder ==
    TypedTwice => typed_in_order

\* the same for a first string of one-byte characters, typed without extend
\* or at forward selections
C39_TypingOrderForward ==
    (/\ TypedTwice
     /\ str_len(last.inserted[1].arg[1]) = Len(last.inserted[1].arg[1])
     /\ \/ ~last.arg[2]
        \/ \A i \in 1..Len(before_typing.selection.selections) :
              is_forward(before_typing.selection.selections[i]))
       => typed_in_order

\* "a" then "ab" typed with extend at the cursor of a backward selection:
\* the second string is before the first
C39_TypedBackwards ==
    /\ TypedTwice
    /\ last.arg = << <<"a", "b">>, TRUE >>
    /\ last.inserted[1].arg = << <<"a">>, TRUE >>
    /\ before_typing.text = <<NL, "a">>
    /\ before_typing.selection.selections = <<Sel(2, 1, FALSE)>>
    /\ buffer.text = <<NL, "a", "b", "a", "a">>

\* "a" then "ab" typed at a forward selection
C39_TypedInOrder ==
    /\ TypedTwice
    /\ last.arg = << <<"a", "b">>, TRUE >>
    /\ last.inserted[1].arg = << <<"a">>, TRUE >>
    /\ before_typing.text = <<NL, "a">>
    /\ before_typing.selection.selections = <<Sel(0, 1, TRUE)>>
    /\ buffer.text = <<NL, "a", "a", "b", "a">>

-----------------------------------------------------------------------------
(* State (state.rs) with its Slab of buffers: the command line of Command   *)
(* mode opens, writes, deletes and cycles buffers. The read and the write   *)
(* handler are the embedder's closures; what they return is an input.       *)

\* most commands completed in one behaviour
MaxCommands == 5
\* most entries of the Slab
MaxBuffers == 3

\* Entry::Occupied(value) and Entry::Vacant(next) of the Slab
Occupied(value) == [occupied |-> TRUE, value |-> value]
Vacant(next) == [occupied |-> FALSE, next |-> next]

\* Slab::contains
slab_contains(slab, key) ==
    key < Len(slab.entries) /\ slab.entries[key + 1].occupied

\* the keys Slab::iter visits
slab_keys(slab) == {key \in 0..(Len(slab.entries) - 1) : slab.entries[key + 1].occupied}

\* VacantEntry::insert at the key Slab::vacant_entry gave: the slot freed
\* last, or a new one at the end
slab_insert(slab, value) ==
    IF slab.next = Len(slab.entries)
    THEN [entries |-> Append(slab.entries, Occupied(value)), next |-> slab.next + 1]
    ELSE [entries |-> [slab.entries EXCEPT ![slab.next + 1] = Occupied(value)],
          next |-> slab.entries[slab.next + 1].next]

\* Slab::remove of an occupied key
slab_remove(slab, key) ==
    [entries |-> [slab.entries EXCEPT ![key + 1] = Vacant(slab.next)], next |-> key]

\* the status message: a text and the command line it quotes
Message(text, arg) == Some([text |-> text, arg |-> arg])

\* io::Result of a handler
Ok(value) == [ok |-> TRUE, value |-> value]
Err(e) == [ok |-> FALSE, err |-> e]

\* the BufferState open_buffer inserts
OpenedBuffer(path, rope) ==
    [buffer |-> from_text(rope), buffer_history |-> <<>>,
     buffer_history_undo_i |-> None, path |-> Some(path)]

\* the State of the editor: the fields the command line reads and writes
cur_editor ==
    [buffers |-> buffers, cur_buffer_i |-> cur_buffer_i, msg |-> msg, mode |-> mode,
     quit |-> FALSE]

\* State::set_mode with the Slab: the current buffer, if there is one, gets
\* its undo point
state_set_mode(st, m) ==
    IF st = Panic THEN Panic
    ELSE IF st.cur_buffer_i = None THEN [st EXCEPT !.mode = m]
    ELSE IF ~slab_contains(st.buffers, st.cur_buffer_i[1]) THEN Panic
    ELSE [st EXCEPT !.buffers.entries[st.cur_buffer_i[1] + 1].value =
                        maybe_commit_undo_point(@),
                    !.mode = m]

\* State::open_buffer that takes the entry before it reads the file
state_open_buffer_entry_first(st, path, read) ==
    LET found == {key \in slab_keys(st.buffers) :
                     st.buffers.entries[key + 1].value.path = Some(path)}
    IN  IF found # {}
        THEN [st EXCEPT !.cur_buffer_i = Some(CHOOSE key \in found : \A k \in found : key <= k)]
        ELSE [st EXCEPT !.cur_buffer_i = Some(st.buffers.next),
                        !.buffers = slab_insert(@, OpenedBuffer(path,
                                                   IF read.ok THEN read.value ELSE <<>>)),
                        !.msg = IF read.ok THEN @ ELSE Message(read.err, <<>>)]

\* State::open_buffer; read is what the read handler returns for the path
state_open_buffer(st, path, read) ==
    LET found == {key \in slab_keys(st.buffers) :
                     st.buffers.entries[key + 1].value.path = Some(path)}
    IN  IF found # {}
        THEN [st EXCEPT !.cur_buffer_i = Some(CHOOSE key \in found : \A k \in found : key <= k)]
        ELSE IF ~read.ok THEN [st EXCEPT !.msg = Message(read.err, <<>>)]
        ELSE [st EXCEPT !.cur_buffer_i = Some(st.buffers.next),
                        !.buffers = slab_insert(@, OpenedBuffer(path, read.value))]

\* State::try_write_buffer; written is what the write handler returns
state_try_write_buffer(st, path, written) ==
    IF st.cur_buffer_i # None
    THEN IF ~slab_contains(st.buffers, st.cur_buffer_i[1]) THEN Panic ELSE written
    ELSE Ok(<<>>)

\* State::write_buffer; cur_buffer_state and cur_buffer_state_mut expect a
\* current buffer
state_write_buffer(st, path, written) ==
    IF path = None /\ st.cur_buffer_i = None THEN Panic
    ELSE LET given == IF path # None THEN path
                      ELSE st.buffers.entries[st.cur_buffer_i[1] + 1].value.path
         IN  IF given = None THEN [st EXCEPT !.msg = Message("No path given", <<>>)]
             ELSE LET result == state_try_write_buffer(st, given[1], written)
                  IN  IF result = Panic THEN Panic
                      ELSE IF ~result.ok THEN [st EXCEPT !.msg = Message(result.err, <<>>)]
                      ELSE IF st.cur_buffer_i = None THEN Panic
                      ELSE [st EXCEPT !.buffers.entries[st.cur_buffer_i[1] + 1].value.path
                                          = given]

\* State::buffer_next: the loop counts up from cur_buffer_i modulo the
\* capacity, which no key reaches, and stops at the first key the Slab holds
state_buffer_next(st) ==
    LET keys == slab_keys(st.buffers)
    IN  IF keys = {} THEN [st EXCEPT !.cur_buffer_i = None]
        ELSE IF st.cur_buffer_i = None THEN Panic
        ELSE LET after == {key \in keys : key > st.cur_buffer_i[1]}
                 from == IF after # {} THEN after ELSE keys
             IN  [st EXCEPT !.cur_buffer_i =
                                Some(CHOOSE key \in from : \A k \in from : key <= k)]

\* State::buffer_prev: the same loop counting down
state_buffer_prev(st) ==
    LET keys == slab_keys(st.buffers)
    IN  IF keys = {} THEN [st EXCEPT !.cur_buffer_i = None]
        ELSE IF st.cur_buffer_i = None THEN Panic
        ELSE LET before == {key \in keys : key < st.cur_buffer_i[1]}
                 from == IF before # {} THEN before ELSE keys
             IN  [st EXCEPT !.cur_buffer_i =
                                Some(CHOOSE key \in from : \A k \in from : key >= k)]

\* State::delete_buffer
state_delete_buffer(st) ==
    IF st.cur_buffer_i = None THEN st
    ELSE IF ~slab_contains(st.buffers, st.cur_buffer_i[1]) THEN Panic
    ELSE state_buffer_next([st EXCEPT !.buffers = slab_remove(@, st.cur_buffer_i[1])])

RECURSIVE split_whitespace(_)
\* str::split_whitespace: the words between the blanks, none of them empty
split_whitespace(str) ==
    IF str = <<>> THEN <<>>
    ELSE IF Head(str) = SP THEN split_whitespace(Tail(str))
    ELSE LET blanks == {q \in 1..Len(str) : str[q] = SP}
             end == IF blanks = {} THEN Len(str) + 1
                    ELSE CHOOSE q \in blanks : \A r \in blanks : q <= r
         IN  <<SubSeq(str, 1, end - 1)>> \o split_whitespace(SubSeq(str, end, Len(str)))

RECURSIVE open_each(_, _, _)
\* the loop of the command e over its paths; reads gives the read handler's
\* result for each path
open_each(st, paths, reads) ==
    IF paths = <<>> \/ st = Panic THEN st
    ELSE open_each(state_open_buffer(st, Head(paths), reads[Head(paths)]), Tail(paths), reads)

\* Command::handle_command_complete on the State with its Slab
state_handle_command_complete(self, st, reads, written) ==
    LET cmd == split_whitespace(self.cmd)
    IN  IF cmd = <<>> THEN st
        ELSE CASE cmd[1] = <<"q">> -> [st EXCEPT !.quit = TRUE]
               [] cmd[1] = <<"b", "n">> -> state_buffer_next(st)
               [] cmd[1] = <<"b", "p">> -> state_buffer_prev(st)
               [] cmd[1] = <<"e">> -> open_each(st, Tail(cmd), reads)
               [] cmd[1] = <<"d", "b">> -> state_delete_buffer(st)
               [] cmd[1] = <<"w">> ->
                    state_write_buffer(st, IF Len(cmd) > 1 THEN Some(cmd[2]) ELSE None, written)
               [] OTHER -> [st EXCEPT !.msg = Message("unrecognized command: ", self.cmd)]

\* the keys that are characters of a command line
CommandChars == {"q", "e", "d", "b", "n", "p", "w", "a", "x", SP}

\* Command::handle on the State with its Slab
state_command_handle(self, st, key, reads, written) ==
    CASE key = "Esc" -> Handled(state_set_mode(st, NormalMode(None)), self)
      [] key = "Enter" ->
           Handled(state_set_mode(state_handle_command_complete(self, st, reads, written),
                                  NormalMode(None)),
                   self)
      [] key = "Backspace" -> Handled(st, [self EXCEPT !.cmd = pop(@)])
      [] key \in CommandChars -> Handled(st, [self EXCEPT !.cmd = Append(@, key)])
      [] OTHER -> Handled(st, self)

\* Normal::handle of the key that opens the command line: with no buffer
\* open it sets the mode; with one, the undo point is committed around
\* the action, which sets the mode
state_normal_handle(self, st, key) ==
    IF key = ":" THEN Handled(state_set_mode(st, CommandMode), self)
    ELSE Handled(st, self)

\* State::handle_key: the message is cleared, then the mode handles the key
state_handle_key(st, key, reads, written) ==
    LET taken == [st EXCEPT !.msg = None, !.mode = [name |-> "taken"]]
    IN  put_back(IF st.mode.name = "command"
                 THEN state_command_handle(st.mode, taken, key, reads, written)
                 ELSE state_normal_handle(st.mode, taken, key))

\* the paths, what the read handler may return for one, and the write handler
Paths == { <<"a">>, <<"b">> }
ReadResults == { Err("read failed"), Ok(<<"a">>) }
WriteResults == { Err("write failed"), Ok(<<>>) }

\* the command lines typed
CommandLines ==
    { <<>>, <<SP>>, <<"q">>, <<"q", SP, "a">>, <<"x">>, <<"x", SP, "a">>,
      <<"e">>, <<"e", SP, "a">>, <<"e", SP, "b">>, <<"e", SP, "a", SP, "b">>,
      <<"d", "b">>, <<"d", "b", SP, "a">>,
      <<"w">>, <<"w", SP, "a">>, <<"w", SP, "b">>,
      <<"b", "n">>, <<"b", "n", SP, "a">>, <<"b", "p">>, <<"b", "p", SP, "a">> }

\* what may be on the command line while one of them is typed
CommandLinePrefixes ==
    UNION {{SubSeq(line, 1, n) : n \in 0..Len(line)} : line \in CommandLines}

\* State::default
InitCmd ==
    /\ buffer = from_text(<<>>)
    /\ buffer_history = <<>>
    /\ buffer_history_undo_i = None
    /\ mode = NormalMode(None)
    /\ yanked = <<>>
    /\ panicked = FALSE
    /\ NoBufferOpen
    /\ last = [op |-> "init"]
    /\ steps = MaxCommands

\* one key handled by State::handle_key, or the panic that ends the process;
\* no key is read once quit is set
CmdKeyHandled(key, reads, written) ==
    LET handled == state_handle_key(cur_editor, key, reads, written)
    IN  /\ ~panicked
        /\ steps > 0
        /\ handled # Panic =>
              /\ Len(handled.buffers.entries) <= MaxBuffers
              /\ handled.mode.name = "command" => handled.mode.cmd \in CommandLinePrefixes
        /\ IF handled = Panic
           THEN /\ panicked' = TRUE
                /\ UNCHANGED <<buffers, cur_buffer_i, msg, mode>>
           ELSE /\ panicked' = FALSE
                /\ buffers' = handled.buffers
                /\ cur_buffer_i' = handled.cur_buffer_i
                /\ msg' = handled.msg
                /\ mode' = handled.mode
        /\ last' = [op |-> "key", key |-> key, pre |-> cur_editor,
                    reads |-> reads, written |-> written,
                    quit |-> handled # Panic /\ handled.quit]
        /\ steps' = IF handled # Panic /\ handled.quit THEN 0
                    ELSE IF key = "Enter" /\ mode.name = "command" THEN steps - 1
                    ELSE steps
        /\ UNCHANGED <<buffer, buffer_history, buffer_history_undo_i, yanked>>

\* the handlers are not called
NotCalled == [reads |-> [path \in Paths |-> Err("read failed")], written |-> Ok(<<>>)]

CmdNormalKey ==
    /\ mode.name = "normal"
    /\ \E key \in {":", "x"} : CmdKeyHandled(key, NotCalled.reads, NotCalled.written)

CmdLineKey ==
    /\ mode.name = "command"
    /\ \E key \in CommandChars \cup {"Esc", "Backspace", "F1"} :
          CmdKeyHandled(key, NotCalled.reads, NotCalled.written)

CmdEnter ==
    /\ mode.name = "command"
    /\ \E reads \in [Paths -> ReadResults], written \in WriteResults :
          CmdKeyHandled("Enter", reads, written)

NextCmd ==
    \/ CmdNormalKey
    \/ CmdLineKey
    \/ CmdEnter

SpecCmd == InitCmd /\ [][NextCmd]_vars

-----------------------------------------------------------------------------
(* C32: Enter in Command mode is total *)

\* Enter was pressed in Command mode
EnterOnCommandLine ==
    /\ last.op = "key"
    /\ last.key = "Enter"
    /\ last.pre.mode.name = "command"

\* the words of the line Enter completed
completed_words == split_whitespace(last.pre.mode.cmd)

CommandWords == { <<"q">>, <<"e">>, <<"d", "b">>, <<"w">>, <<"b", "n">>, <<"b", "p">> }

\* the line has a first word and it is no command
unrecognized_line == completed_words # <<>> /\ completed_words[1] \notin CommandWords

\* Normal mode, no crash; an unrecognized line has set the message and left
\* the buffers and the current one as they were
handled_in_normal_mode ==
    /\ ~panicked
    /\ mode = NormalMode(None)
    /\ unrecognized_line =>
          /\ msg = Message("unrecognized command: ", last.pre.mode.cmd)
          /\ buffers = last.pre.buffers
          /\ cur_buffer_i = last.pre.cur_buffer_i

\* C32: for every accumulated line (empty, unrecognized, q, e, db, w, bn, bp,
\* with or without arguments) and every editor state, the one with no buffer
\* open included, Enter in Command mode ends in Normal mode without a crash;
\* an unrecognized command only sets the status message and changes no
\* buffer.
C32_EnterIsTotal ==
    EnterOnCommandLine => handled_in_normal_mode

\* the line is the command w and no buffer is open
write_without_buffer ==
    /\ completed_words # <<>>
    /\ completed_words[1] = <<"w">>
    /\ last.pre.cur_buffer_i = None

\* C32 for every line but w with no buffer open
C32_EnterIsTotalButWrite ==
    (EnterOnCommandLine /\ ~write_without_buffer) => handled_in_normal_mode

\* w with no buffer open always ends in a panic, with a path or without
C32_WritePanicsWithoutBuffer ==
    (EnterOnCommandLine /\ write_without_buffer) => panicked

\* w on the editor as it starts, no buffer open: a panic
C32_WritePanic ==
    /\ EnterOnCommandLine
    /\ last.pre.mode.cmd = <<"w">>
    /\ last.pre.buffers = EmptySlab
    /\ panicked

\* w with a path and no buffer open: a panic as well
C32_WritePathPanic ==
    /\ EnterOnCommandLine
    /\ last.pre.mode.cmd = <<"w", SP, "a">>
    /\ last.pre.cur_buffer_i = None
    /\ panicked

\* an unrecognized command with two buffers open
C32_Unrecognized ==
    /\ EnterOnCommandLine
    /\ unrecognized_line
    /\ Cardinality(slab_keys(buffers)) = 2
    /\ handled_in_normal_mode

\* the last buffer deleted: no buffer is open again
C32_LastBufferDeleted ==
    /\ EnterOnCommandLine
    /\ completed_words # <<>>
    /\ completed_words[1] = <<"d", "b">>
    /\ last.pre.cur_buffer_i # None
    /\ cur_buffer_i = None
    /\ handled_in_normal_mode

-----------------------------------------------------------------------------
(* C33: a failing read or write only sets the status message *)

\* the paths of the buffers that were open before the key
paths_open_before ==
    {last.pre.buffers.entries[key + 1].value.path : key \in slab_keys(last.pre.buffers)}

\* Enter completed e with one path that no open buffer has, and the read
\* handler failed
ReadFailed ==
    /\ EnterOnCommandLine
    /\ Len(completed_words) = 2
    /\ completed_words[1] = <<"e">>
    /\ Some(completed_words[2]) \notin paths_open_before
    /\ ~last.reads[completed_words[2]].ok

\* Enter completed w with a buffer open, and the write handler failed
WriteFailed ==
    /\ EnterOnCommandLine
    /\ completed_words # <<>>
    /\ completed_words[1] = <<"w">>
    /\ last.pre.cur_buffer_i # None
    /\ ~last.written.ok

\* no buffer was added, removed or changed, and the current one is the same
buffers_as_before ==
    /\ buffers = last.pre.buffers
    /\ cur_buffer_i = last.pre.cur_buffer_i

\* C33: a failing read in open_buffer sets the message, adds no buffer and
\* leaves the current-buffer index and every buffer unchanged; a failing
\* write in write_buffer sets the message and leaves text, selections,
\* history and stored path of the buffer unchanged; the message is cleared
\* at the start of the next key event.
C33_FailureOnlySetsMessage ==
    /\ ReadFailed =>
          /\ ~panicked
          /\ msg = Message(last.reads[completed_words[2]].err, <<>>)
          /\ buffers_as_before
    /\ WriteFailed =>
          /\ ~panicked
          /\ msg = Message(last.written.err, <<>>)
          /\ buffers_as_before
    /\ (last.op = "key" /\ ~panicked /\ ~EnterOnCommandLine) => msg = None

\* a read failed with a buffer open
C33_Witness ==
    /\ ReadFailed
    /\ last.pre.cur_buffer_i # None
    /\ msg # None
    /\ buffers_as_before

\* a write failed
C33_WriteWitness ==
    /\ WriteFailed
    /\ msg = Message("write failed", <<>>)
    /\ buffers_as_before

\* the key after a failure cleared the message
C33_ClearedWitness ==
    /\ last.op = "key"
    /\ last.pre.msg = Message("read failed", <<>>)
    /\ msg = None

====
